---- MODULE Spec2Model ----
(***************************************************************************)
(* The formatting-range index of a textbus slot (class Format) as a state  *)
(* machine: the store `map` of one slot of length `len`, the mutating      *)
(* operations merge / stretch / split / shrink and the read operations     *)
(* extract / createFormatByRange / toTree.                                 *)
(***************************************************************************)
EXTENDS Integers, Sequences, FiniteSets, TLC

\* ------------------------------------------------------------------ bounds
\* Largest slot length explored.
MaxLen == 3
\* Largest number of positions inserted or deleted by one edit.
MaxCount == 2
\* Largest number of ranges a merge may leave in one range list.
MaxRanges == 3

\* ------------------------------------------------------------- formatters
\* The formatter registry: type (FormatType.Block / FormatType.Inline),
\* overlap and columned are the only fields Format reads.
Formatters ==
  [ bold    |-> [type |-> "Inline", overlap |-> FALSE, columned |-> FALSE],
    column  |-> [type |-> "Inline", overlap |-> FALSE, columned |-> TRUE],
    comment |-> [type |-> "Inline", overlap |-> TRUE,  columned |-> FALSE],
    align   |-> [type |-> "Block",  overlap |-> FALSE, columned |-> FALSE],
    cell    |-> [type |-> "Block",  overlap |-> TRUE,  columned |-> FALSE] ]

FormatterNames == DOMAIN Formatters

\* Iteration order of the keys of a store (a JS Map iterates in insertion
\* order; the model fixes one order of the formatters).
FormatterOrder == <<"bold", "column", "comment", "align", "cell">>


\* ------------------------------------------------------------ FormatValue
\* A FormatValue is null, a primitive, a flat record of primitives or a
\* CleanFormatRule.  Every value has the same shape: k is what it is, p the
\* primitive and f the own enumerable properties as a set of <<key, n>> pairs,
\* n = 0 standing for null and n > 0 for the primitive n.
Undefined == [k |-> "undefined", p |-> 0, f |-> {}]
Null      == [k |-> "null", p |-> 0, f |-> {}]
Prim(n)   == [k |-> "prim", p |-> n, f |-> {}]
Obj(flds) == [k |-> "object", p |-> 0, f |-> flds]

\* new CleanFormatRule(value): an object whose only property is `value`.
CleanFormatRule(n) == [k |-> "clean", p |-> 0, f |-> {<<"value", n>>}]

isClean(data) == data.k = "clean"

\* data.value of a CleanFormatRule.
CleanValue(data) ==
  LET n == (CHOOSE e \in data.f : e[1] = "value")[2]
  IN IF n = 0 THEN Null ELSE Prim(n)

\* isVoid that takes only undefined for void.
isVoidUndefined(data) == data.k = "undefined"

isVoid(data) == data.k \in {"null", "undefined"}

Keys(v) == {e[1] : e \in v.f}

Field(v, key) == (CHOOSE e \in v.f : e[1] = key)[2]

\* typeof v === 'object' for the values that reach Format.equal: a null
\* operand (whose Object.keys would throw) never does, because no stored
\* range carries null and every caller passes a non-void right operand.
typeofObject(v) == v.k \in {"object", "clean"}

\* Format.equal: identity, else a one-level comparison of the properties,
\* whatever the classes of the two objects are.
equal(left, right) ==
  IF left = right
  THEN TRUE
  ELSE IF typeofObject(left) /\ typeofObject(right)
       THEN /\ Cardinality(Keys(left)) = Cardinality(Keys(right))
            /\ \A key \in Keys(left) :
                 key \in Keys(right) /\ Field(right, key) = Field(left, key)
       ELSE FALSE

\* The values and instructions callers merge.
PlainValues == {Prim(1), Prim(2)}
CleanRules  == {CleanFormatRule(0), CleanFormatRule(1)}
DataValues  == PlainValues \cup CleanRules \cup {Null}

\* What a behaviour works with: the formatters of the registry and the
\* values its callers merge.
Scenarios ==
  { [fmts |-> {"bold"},    data |-> DataValues],
    [fmts |-> {"comment"}, data |-> {Prim(1), Prim(2), Null}],
    [fmts |-> {"comment"}, data |-> {Prim(1), CleanFormatRule(1), CleanFormatRule(0)}],
    [fmts |-> {"align"},   data |-> DataValues],
    [fmts |-> {"cell"},    data |-> DataValues],
    [fmts |-> {"bold", "column"},    data |-> {Prim(1), Null}],
    [fmts |-> {"column", "comment"}, data |-> {Prim(1)}],
    [fmts |-> {"bold", "align"},     data |-> {Prim(1), Null}] }

\* ------------------------------------------------------------- the store
Range(s, e, v) == [startIndex |-> s, endIndex |-> e, value |-> v]

\* new Map(): no key.
EmptyMap == [g \in {} |-> <<>>]

\* MapSet that appends to the list of a key instead of replacing it.
MapSetAppend(m, key, ranges) ==
  [g \in (DOMAIN m) \cup {key} |->
     IF g = key THEN (IF key \in DOMAIN m THEN m[key] ELSE <<>>) \o ranges
     ELSE m[g]]

MapSet(m, key, ranges) ==
  [g \in (DOMAIN m) \cup {key} |-> IF g = key THEN ranges ELSE m[g]]

\* MapDelete that empties the whole store.
MapClear(m, key) == [g \in {} |-> <<>>]

MapDelete(m, key) == [g \in (DOMAIN m) \ {key} |-> m[g]]

Max(a, b) == IF a >= b THEN a ELSE b
Min(a, b) == IF a <= b THEN a ELSE b

RECURSIVE Flat(_)
\* Array.prototype.flat over a list of lists.
Flat(lists) ==
  IF lists = <<>> THEN <<>> ELSE Head(lists) \o Flat(Tail(lists))

RECURSIVE MaxEnd(_)
MaxEnd(ranges) ==
  IF ranges = <<>> THEN 0 ELSE Max(Head(ranges).endIndex, MaxEnd(Tail(ranges)))

\* tileRanges in which the first range that covers an offset keeps it.
tileRangesFirstWins(ranges, slotLength) ==
  LET n == MaxEnd(ranges)
      covering(p) == {i \in 1..Len(ranges) :
                        ranges[i].startIndex <= p /\ p < ranges[i].endIndex}
      first(S) == CHOOSE i \in S : \A j \in S : i <= j
  IN [q \in 1..Min(n, slotLength) |->
        IF covering(q - 1) = {} THEN Undefined
        ELSE ranges[first(covering(q - 1))].value]

\* tileRanges in which the last offset of a range is filled one too far.
tileRangesClosed(ranges, slotLength) ==
  LET n == MaxEnd(ranges)
      covering(p) == {i \in 1..Len(ranges) :
                        ranges[i].startIndex <= p /\ p <= ranges[i].endIndex}
      last(S) == CHOOSE i \in S : \A j \in S : j <= i
  IN [q \in 1..Min(n, slotLength) |->
        IF covering(q - 1) = {} THEN Undefined
        ELSE ranges[last(covering(q - 1))].value]

\* Format.tileRanges: the dense array of values, offset p at position p + 1.
\* Every range extends the array to its endIndex and fills [startIndex,
\* endIndex), so an offset holds the value of the last range that covers it;
\* the array is then cut to slot.length.
tileRanges(ranges, slotLength) ==
  LET n == MaxEnd(ranges)
      covering(p) == {i \in 1..Len(ranges) :
                        ranges[i].startIndex <= p /\ p < ranges[i].endIndex}
      last(S) == CHOOSE i \in S : \A j \in S : j <= i
  IN [q \in 1..Min(n, slotLength) |->
        IF covering(q - 1) = {} THEN Undefined
        ELSE ranges[last(covering(q - 1))].value]

RECURSIVE toRangesFrom(_, _, _, _)
\* The loop of Format.toRanges from position i on: newRanges so far, and
\* whether `range` still refers to the last of them (FALSE: range = null).
toRangesFrom(values, i, newRanges, open) ==
  IF i > Len(values) THEN newRanges
  ELSE LET item == values[i]
           cur  == IF open THEN newRanges[Len(newRanges)].value ELSE Undefined
       IN IF isVoid(item)
          THEN toRangesFrom(values, i + 1, newRanges, FALSE)
          ELSE IF equal(cur, item)
               THEN toRangesFrom(values, i + 1,
                      [newRanges EXCEPT ![Len(newRanges)].endIndex = i], TRUE)
               ELSE toRangesFrom(values, i + 1,
                      Append(newRanges, Range(i - 1, i, item)), TRUE)

RECURSIVE SelectSet(_, _, _)
SelectSet(ranges, i, keep) ==
  IF i > Len(ranges) THEN <<>>
  ELSE (IF i \in keep THEN <<ranges[i]>> ELSE <<>>) \o SelectSet(ranges, i + 1, keep)

\* toRanges that never extends a run: one range per non-void position.
toRangesNoRuns(values) ==
  SelectSet([i \in 1..Len(values) |-> Range(i - 1, i, values[i])], 1,
            {i \in 1..Len(values) : ~isVoid(values[i])})

\* Format.toRanges: maximal runs of equal non-void values.
toRanges(values) == toRangesFrom(values, 1, <<>>, FALSE)

RECURSIVE formatRangesToMapFrom(_, _)
\* Format.formatRangesToMap: the ranges grouped by value-equality, groups in
\* order of first appearance; a group is [key, ranges].
formatRangesToMapFrom(oldRanges, groups) ==
  IF oldRanges = <<>> THEN groups
  ELSE LET item == Head(oldRanges)
           hit  == {g \in 1..Len(groups) : equal(groups[g].key, item.value)}
           g0   == CHOOSE g \in hit : \A h \in hit : g <= h
       IN IF hit /= {}
          THEN formatRangesToMapFrom(Tail(oldRanges),
                 [groups EXCEPT ![g0].ranges = Append(@, item)])
          ELSE formatRangesToMapFrom(Tail(oldRanges),
                 Append(groups, [key |-> item.value, ranges |-> <<item>>]))

\* formatRangesToMap that never finds a key: every range is its own group.
formatRangesToMapSingles(oldRanges) ==
  [i \in 1..Len(oldRanges) |->
     [key |-> oldRanges[i].value, ranges |-> <<oldRanges[i]>>]]

formatRangesToMap(oldRanges) == formatRangesToMapFrom(oldRanges, <<>>)

\* GroupValues that forgets every group but the first.
GroupValuesFirst(groups) ==
  IF groups = <<>> THEN <<>> ELSE <<groups[1].ranges>>

\* Array.from(map.values())
GroupValues(groups) == [g \in 1..Len(groups) |-> groups[g].ranges]

\* Array.prototype.splice(start, deleteCount, ...items) on a dense array.
Splice(values, start, deleteCount, items) ==
  LET st == Min(start, Len(values))
      dc == Min(deleteCount, Len(values) - st)
  IN SubSeq(values, 1, st) \o items \o SubSeq(values, st + dc + 1, Len(values))

Voids(n) == [i \in 1..n |-> Undefined]
Nulls(n) == [i \in 1..n |-> Null]

\* No newRange argument.
NoRange == [none |-> TRUE]

\* Format.normalizeFormatRange.
normalizeFormatRange(formatter, oldRanges, newRange, slotLength) ==
  IF Formatters[formatter].overlap
  THEN
    LET pushNull(groups, sel) ==
          [g \in 1..Len(groups) |->
             IF g \in sel
             THEN Append(groups[g].ranges, [newRange EXCEPT !.value = Null])
             ELSE groups[g].ranges]
        map == formatRangesToMap(oldRanges)
        all == 1..Len(map)
        valueGroups ==
          IF newRange = NoRange
          THEN GroupValues(map)
          ELSE LET value == newRange.value IN
            IF isClean(value)
            THEN IF isVoid(CleanValue(value))
                 THEN pushNull(map, all)
                 ELSE LET hit == {g \in all : equal(map[g].key, CleanValue(value))}
                      IN IF hit = {} THEN GroupValues(map)
                         ELSE pushNull(map, {CHOOSE g \in hit : \A h \in hit : g <= h})
            ELSE IF isVoid(value)
                 THEN pushNull(map, all)
                 ELSE GroupValues(formatRangesToMap(<<newRange>> \o oldRanges))
    IN Flat([g \in 1..Len(valueGroups) |->
               toRanges(tileRanges(valueGroups[g], slotLength))])
  ELSE
    LET ranges ==
          IF newRange = NoRange
          THEN oldRanges
          ELSE LET value == newRange.value IN
            IF isClean(value)
            THEN IF isVoid(CleanValue(value))
                 THEN Append(oldRanges, newRange)
                 ELSE LET map == formatRangesToMap(oldRanges)
                          \* the key is compared with the rule itself
                          hit == {g \in 1..Len(map) : equal(map[g].key, value)}
                          g0  == CHOOSE g \in hit : \A h \in hit : g <= h
                          cleanValues == Nulls(newRange.endIndex - newRange.startIndex)
                      IN IF hit = {} THEN Flat(GroupValues(map))
                         ELSE Flat(GroupValues(
                                [map EXCEPT ![g0].ranges = toRanges(cleanValues)]))
            ELSE Append(oldRanges, newRange)
    IN toRanges(tileRanges(ranges, slotLength))

\* Format.merge: data is a FormatValue for a Block formatter and a
\* FormatRange for an Inline formatter.
merge(m, slotLength, formatter, data) ==
  IF Formatters[formatter].type = "Block"
  THEN
    IF isVoid(data) THEN MapDelete(m, formatter)
    ELSE IF Formatters[formatter].overlap
    THEN IF isClean(data)
         THEN IF isVoid(CleanValue(data)) THEN MapDelete(m, formatter) ELSE m
         ELSE LET oldRanges == IF formatter \in DOMAIN m THEN m[formatter] ELSE <<>>
                  map == formatRangesToMap(oldRanges)
              IN MapSet(m, formatter,
                        Flat(GroupValues(map)) \o <<Range(0, slotLength, data)>>)
    ELSE IF isClean(data)
    THEN IF isVoid(CleanValue(data)) THEN MapDelete(m, formatter)
         ELSE IF /\ formatter \in DOMAIN m
                 /\ equal(IF m[formatter] = <<>> THEN Undefined
                          ELSE m[formatter][1].value, CleanValue(data))
              THEN MapDelete(m, formatter)
              ELSE m
    ELSE MapSet(m, formatter, <<Range(0, slotLength, data)>>)
  ELSE
    IF formatter \notin DOMAIN m
    THEN IF isVoid(data.value) THEN m ELSE MapSet(m, formatter, <<data>>)
    ELSE LET newRanges == normalizeFormatRange(formatter, m[formatter], data, slotLength)
         IN IF newRanges /= <<>>
            THEN MapSet(m, formatter, newRanges)
            ELSE MapDelete(m, formatter)

\* stretchRange that leaves a range ending exactly at index alone.
stretchRangeStrict(range, index, count) ==
  IF range.endIndex <= index THEN range
  ELSE [range EXCEPT !.endIndex = @ + count,
                     !.startIndex = IF @ >= index THEN @ + count ELSE @]

\* stretchRange that moves only the ranges starting after index, so that a
\* range starting at index grows over the inserted positions.
stretchRangeAfter(range, index, count) ==
  IF range.endIndex < index THEN range
  ELSE [range EXCEPT !.endIndex = @ + count,
                     !.startIndex = IF @ > index THEN @ + count ELSE @]

\* The body of the forEach of Format.stretch for one range.
stretchRange(range, index, count) ==
  IF range.endIndex < index THEN range
  ELSE [range EXCEPT !.endIndex = @ + count,
                     !.startIndex = IF @ >= index THEN @ + count ELSE @]

\* Format.stretch.
stretch(m, index, count) ==
  [g \in DOMAIN m |->
     [i \in 1..Len(m[g]) |-> stretchRange(m[g][i], index, count)]]

\* splitRanges that moves the Inline ranges without tiling them: the ranges
\* at or after index shift, a range around index is not cut.
splitRangesShift(key, formatRanges, slotLength, index, distance) ==
  IF Formatters[key].type = "Block"
  THEN [i \in 1..Len(formatRanges) |->
          [formatRanges[i] EXCEPT !.endIndex = @ + distance]]
  ELSE [i \in 1..Len(formatRanges) |->
          IF formatRanges[i].endIndex <= index THEN formatRanges[i]
          ELSE [formatRanges[i] EXCEPT
                  !.endIndex = @ + distance,
                  !.startIndex = IF @ >= index THEN @ + distance ELSE @]]

\* The body of the forEach of Format.split for one key.
splitRanges(key, formatRanges, slotLength, index, distance) ==
  LET expandedValues == Voids(distance) IN
  IF Formatters[key].type = "Block"
  THEN [i \in 1..Len(formatRanges) |->
          [formatRanges[i] EXCEPT !.endIndex = @ + distance]]
  ELSE IF Formatters[key].overlap
  THEN LET groups == GroupValues(formatRangesToMap(formatRanges))
       IN Flat([g \in 1..Len(groups) |->
                  toRanges(Splice(tileRanges(groups[g], slotLength),
                                  index, 0, expandedValues))])
  ELSE toRanges(Splice(tileRanges(formatRanges, slotLength), index, 0, expandedValues))

\* Format.split: every key keeps its entry.
split(m, slotLength, index, distance) ==
  [g \in DOMAIN m |-> splitRanges(g, m[g], slotLength, index, distance)]

\* shrinkRange without Math.max: the indices may fall below startIndex.
shrinkRangeNoMax(range, startIndex, count) ==
  IF range.endIndex <= startIndex THEN range
  ELSE [range EXCEPT
          !.endIndex = @ - count,
          !.startIndex = IF @ > startIndex THEN @ - count ELSE @]

\* shrinkRange that moves startIndex and forgets endIndex.
shrinkRangeStartOnly(range, startIndex, count) ==
  IF range.endIndex <= startIndex THEN range
  ELSE [range EXCEPT
          !.startIndex = IF @ > startIndex THEN Max(startIndex, @ - count) ELSE @]

\* The body of the first forEach of Format.shrink for one range.
shrinkRange(range, startIndex, count) ==
  IF range.endIndex <= startIndex THEN range
  ELSE [range EXCEPT
          !.endIndex = Max(startIndex, @ - count),
          !.startIndex = IF @ > startIndex THEN Max(startIndex, @ - count) ELSE @]

\* Format.shrink: the ranges are moved, then every key is normalized and a
\* key without ranges deleted.
shrink(m, slotLength, startIndex, count) ==
  LET moved == [g \in DOMAIN m |->
                  [i \in 1..Len(m[g]) |-> shrinkRange(m[g][i], startIndex, count)]]
      norm  == [g \in DOMAIN m |->
                  normalizeFormatRange(g, moved[g], NoRange, slotLength)]
  IN [g \in {h \in DOMAIN m : norm[h] /= <<>>} |-> norm[g]]

RECURSIVE extractRangesUncut(_, _, _)
\* extractRangesFrom that keeps the end of a range that leaves the window.
extractRangesUncut(ranges, startIndex, endIndex) ==
  IF ranges = <<>> THEN <<>>
  ELSE LET range == Head(ranges)
           rest  == extractRangesUncut(Tail(ranges), startIndex, endIndex)
           s     == Max(range.startIndex, startIndex)
           n     == range.endIndex
       IN IF range.startIndex > endIndex \/ range.endIndex < startIndex
          THEN rest
          ELSE IF s < n THEN <<Range(s, n, range.value)>> \o rest ELSE rest

RECURSIVE extractRangesTouching(_, _, _)
\* extractRangesFrom that also keeps the empty cut of a range that only
\* touches the window.
extractRangesTouching(ranges, startIndex, endIndex) ==
  IF ranges = <<>> THEN <<>>
  ELSE LET range == Head(ranges)
           rest  == extractRangesTouching(Tail(ranges), startIndex, endIndex)
           s     == Max(range.startIndex, startIndex)
           n     == Min(range.endIndex, endIndex)
       IN IF range.startIndex > endIndex \/ range.endIndex < startIndex
          THEN rest
          ELSE <<Range(s, n, range.value)>> \o rest

RECURSIVE extractRangesInside(_, _, _)
\* extractRangesFrom that keeps only the ranges that lie inside the window.
extractRangesInside(ranges, startIndex, endIndex) ==
  IF ranges = <<>> THEN <<>>
  ELSE LET range == Head(ranges)
           rest  == extractRangesInside(Tail(ranges), startIndex, endIndex)
       IN IF range.startIndex < startIndex \/ range.endIndex > endIndex
          THEN rest
          ELSE <<range>> \o rest

RECURSIVE extractRangesFrom(_, _, _)
\* The forEach of Format.extractFormatRangesByFormatter over the ranges of
\* one formatter: each range cut to the window, kept when not empty.
extractRangesFrom(ranges, startIndex, endIndex) ==
  IF ranges = <<>> THEN <<>>
  ELSE LET range == Head(ranges)
           rest  == extractRangesFrom(Tail(ranges), startIndex, endIndex)
           s     == Max(range.startIndex, startIndex)
           n     == Min(range.endIndex, endIndex)
       IN IF range.startIndex > endIndex \/ range.endIndex < startIndex
          THEN rest
          ELSE IF s < n THEN <<Range(s, n, range.value)>> \o rest ELSE rest

\* Format.extractFormatRangesByFormatter.
extractFormatRangesByFormatter(m, startIndex, endIndex, formatter) ==
  extractRangesFrom(IF formatter \in DOMAIN m THEN m[formatter] ELSE <<>>,
                    startIndex, endIndex)

\* Format.extract: a new store with the keys that have a range in the window.
extract(m, startIndex, endIndex) ==
  LET cut == [g \in DOMAIN m |->
                extractFormatRangesByFormatter(m, startIndex, endIndex, g)]
  IN [g \in {h \in DOMAIN m : cut[h] /= <<>>} |-> cut[g]]

\* createFormatByRange that keeps the indices of the original slot.
createFormatByRangeKept(m, startIndex, endIndex) ==
  LET cut == [g \in DOMAIN m |->
                extractFormatRangesByFormatter(m, startIndex, endIndex, g)]
  IN [g \in {h \in DOMAIN m : cut[h] /= <<>>} |-> cut[g]]

\* Format.createFormatByRange: extract, the ranges moved to start at 0.
createFormatByRange(m, startIndex, endIndex) ==
  LET cut == [g \in DOMAIN m |->
                extractFormatRangesByFormatter(m, startIndex, endIndex, g)]
  IN [g \in {h \in DOMAIN m : cut[h] /= <<>>} |->
        [i \in 1..Len(cut[g]) |->
           [cut[g][i] EXCEPT !.startIndex = @ - startIndex,
                             !.endIndex = @ - startIndex]]]

\* Format.discard: the ranges normalizeFormatRange returns are not stored,
\* and normalizeFormatRange writes neither to oldRanges nor to its ranges.
discard(m, slotLength, formatter, startIndex, endIndex) ==
  LET dropped ==
        IF formatter \in DOMAIN m
        THEN normalizeFormatRange(formatter, m[formatter],
                                  Range(startIndex, endIndex, Null), slotLength)
        ELSE <<>>
  IN m

\* The keys of a store in iteration order.
MapKeys(m) ==
  LET has(g) == g \in DOMAIN m IN SelectSeq(FormatterOrder, has)

\* activeAt that takes a range for active at the offsets it covers.
activeAtCovering(range, index) ==
  range.startIndex <= index /\ index < range.endIndex

\* The test of Format.extractFormatsByIndex on one range.
activeAt(range, index) ==
  IF index = 0
  THEN range.startIndex = 0
  ELSE range.startIndex < index /\ range.endIndex >= index

\* Format.extractFormatsByIndex: the [formatter, value] pairs of the ranges
\* that pass the test, the keys in map order and the ranges in list order.
extractFormatsByIndex(m, index) ==
  LET keys == MapKeys(m)
      pairs(g) == LET keep(range) == activeAt(range, index)
                      kept == SelectSeq(m[g], keep)
                  IN [i \in 1..Len(kept) |-> <<g, kept[i].value>>]
  IN Flat([k \in 1..Len(keys) |-> pairs(keys[k])])

\* Set.prototype.add that adds a second copy of a member.
SetAddAgain(points, p) == Append(points, p)

\* Set.prototype.add on a Set kept as the list of its members in insertion
\* order.
SetAdd(points, p) ==
  IF \E k \in 1..Len(points) : points[k] = p THEN points ELSE Append(points, p)

RECURSIVE SetAddAll(_, _)
SetAddAll(points, ps) ==
  IF ps = <<>> THEN points ELSE SetAddAll(SetAdd(points, Head(ps)), Tail(ps))

RECURSIVE sortAscending(_)
\* Array.prototype.sort((a, b) => a - b): insertion of the head into the
\* sorted tail, equal numbers kept.
sortAscending(points) ==
  IF points = <<>> THEN <<>>
  ELSE LET rest  == sortAscending(Tail(points))
           below(q) == q < Head(points)
           above(q) == q >= Head(points)
       IN SelectSeq(rest, below) \o <<Head(points)>> \o SelectSeq(rest, above)

\* Format.toGrid: 0, slot.length and the two indices of every range, as a
\* Set, then sorted by number.
toGrid(m, slotLength) ==
  LET keys == MapKeys(m)
      ends(g) == Flat([i \in 1..Len(m[g]) |-> <<m[g][i].startIndex, m[g][i].endIndex>>])
      added == <<0, slotLength>> \o Flat([k \in 1..Len(keys) |-> ends(keys[k])])
  IN sortAscending(SetAddAll(<<>>, added))

\* A FormatItem of a tree node: {formatter, ...range}.
FormatItem(formatter, range) ==
  [formatter |-> formatter, startIndex |-> range.startIndex,
   endIndex |-> range.endIndex, value |-> range.value]

\* A FormatTree; formats or children absent is the empty list.
Tree(s, e, formats, children) ==
  [startIndex |-> s, endIndex |-> e, formats |-> formats, children |-> children]

RECURSIVE treeVisits(_, _)
\* The order in which toTree visits the ranges of a store: the keys in map
\* order, the ranges of a key from the last to the first.
treeVisits(m, keys) ==
  IF keys = <<>> THEN <<>>
  ELSE LET formatter == Head(keys) IN
       IF formatter \in DOMAIN m
       THEN [j \in 1..Len(m[formatter]) |->
               [formatter |-> formatter, index |-> Len(m[formatter]) + 1 - j]]
            \o treeVisits(m, Tail(keys))
       ELSE treeVisits(m, Tail(keys))

RECURSIVE treeScanStartOnly(_, _, _, _, _)
\* treeScan that attaches to the node every non-columned range that starts
\* where the node starts, wherever it ends.
treeScanStartOnly(m, visits, startIndex, endIndex, acc) ==
  IF visits = <<>> THEN acc
  ELSE
    LET v     == Head(visits)
        range == m[v.formatter][v.index]
        nxt   ==
          IF range.startIndex = startIndex /\ range.endIndex = endIndex
             /\ Formatters[v.formatter].columned
          THEN [acc EXCEPT !.columnedFormats =
                              Append(@, FormatItem(v.formatter, range))]
          ELSE IF range.startIndex = startIndex
          THEN [acc EXCEPT !.formats = Append(@, FormatItem(v.formatter, range)),
                           !.removed = @ \cup {<<v.formatter, v.index>>}]
          ELSE IF range.startIndex < acc.nextStartIndex
          THEN [acc EXCEPT !.nextStartIndex = range.startIndex,
                           !.nextEndIndex = range.endIndex]
          ELSE IF range.startIndex = acc.nextStartIndex
          THEN [acc EXCEPT !.nextEndIndex = Max(@, range.endIndex)]
          ELSE acc
    IN treeScanStartOnly(m, Tail(visits), startIndex, endIndex, nxt)

RECURSIVE treeScanHoist(_, _, _, _, _)
\* treeScan that attaches a columned range that spans the node to the node,
\* as it does for the other formatters.
treeScanHoist(m, visits, startIndex, endIndex, acc) ==
  IF visits = <<>> THEN acc
  ELSE
    LET v     == Head(visits)
        range == m[v.formatter][v.index]
        nxt   ==
          IF range.startIndex = startIndex /\ range.endIndex = endIndex
          THEN [acc EXCEPT !.formats = Append(@, FormatItem(v.formatter, range)),
                           !.removed = @ \cup {<<v.formatter, v.index>>}]
          ELSE IF range.startIndex < acc.nextStartIndex
          THEN [acc EXCEPT !.nextStartIndex = range.startIndex,
                           !.nextEndIndex = range.endIndex]
          ELSE IF range.startIndex = acc.nextStartIndex
          THEN [acc EXCEPT !.nextEndIndex = Max(@, range.endIndex)]
          ELSE acc
    IN treeScanHoist(m, Tail(visits), startIndex, endIndex, nxt)

RECURSIVE treeScan(_, _, _, _, _)
\* The first loop of Format.toTree over the visits still to make: acc holds
\* nextStartIndex, nextEndIndex, formats, columnedFormats and the ranges
\* spliced out of the copy.
treeScan(m, visits, startIndex, endIndex, acc) ==
  IF visits = <<>> THEN acc
  ELSE
    LET v     == Head(visits)
        range == m[v.formatter][v.index]
        nxt   ==
          IF range.startIndex = startIndex /\ range.endIndex = endIndex
          THEN IF Formatters[v.formatter].columned
               THEN [acc EXCEPT !.columnedFormats =
                                   Append(@, FormatItem(v.formatter, range))]
               ELSE [acc EXCEPT !.formats = Append(@, FormatItem(v.formatter, range)),
                                !.removed = @ \cup {<<v.formatter, v.index>>}]
          ELSE IF range.startIndex < acc.nextStartIndex
          THEN [acc EXCEPT !.nextStartIndex = range.startIndex,
                           !.nextEndIndex = range.endIndex]
          ELSE IF range.startIndex = acc.nextStartIndex
          THEN [acc EXCEPT !.nextEndIndex = Max(@, range.endIndex)]
          ELSE acc
    IN treeScan(m, Tail(visits), startIndex, endIndex, nxt)

RECURSIVE SelectIndices(_, _, _)
\* The ranges of a list whose positions are not in `gone`, in order.
SelectIndices(ranges, i, gone) ==
  IF i > Len(ranges) THEN <<>>
  ELSE (IF i \in gone THEN <<>> ELSE <<ranges[i]>>) \o SelectIndices(ranges, i + 1, gone)

\* The copy after the first loop of toTree: the attached ranges spliced out,
\* a key left without ranges deleted.
treeRest(m, removed) ==
  LET kept == [g \in DOMAIN m |->
                 SelectIndices(m[g], 1, {i \in 1..Len(m[g]) : <<g, i>> \in removed})]
  IN [g \in {h \in DOMAIN m : kept[h] /= <<>>} |-> kept[g]]

RECURSIVE SumLen(_, _)
SumLen(m, keys) ==
  IF keys = {} THEN 0
  ELSE LET g == CHOOSE h \in keys : TRUE IN Len(m[g]) + SumLen(m, keys \ {g})

\* treePush that always appends the child tree itself.
treePushWhole(childTree) == <<childTree>>

\* push(tree, childTree) of toTree: what is appended to tree.children.
treePush(childTree) ==
  IF childTree.formats /= <<>> THEN <<childTree>>
  ELSE IF childTree.children /= <<>> THEN childTree.children
  ELSE <<childTree>>

RECURSIVE toTree(_, _, _)
\* Format.toTree.
toTree(m, startIndex, endIndex) ==
  LET copyFormat == extract(m, startIndex, endIndex)
      scan == treeScan(copyFormat, treeVisits(copyFormat, FormatterOrder),
                       startIndex, endIndex,
                       [nextStartIndex |-> endIndex, nextEndIndex |-> startIndex,
                        formats |-> <<>>, columnedFormats |-> <<>>, removed |-> {}])
      rest == treeRest(copyFormat, scan.removed)
      nextStartIndex == scan.nextStartIndex
      nextEndIndex   == scan.nextEndIndex
      rangeCount  == SumLen(rest, DOMAIN rest)
      hasChildren == rangeCount > Len(scan.columnedFormats)
      before ==
        IF startIndex < nextStartIndex
        THEN IF scan.columnedFormats /= <<>>
             THEN <<toTree(extract(rest, startIndex, nextStartIndex),
                           startIndex, nextStartIndex)>>
             ELSE <<Tree(startIndex, nextStartIndex, <<>>, <<>>)>>
        ELSE <<>>
      middle == treePush(toTree(rest, nextStartIndex, nextEndIndex))
      after ==
        IF nextEndIndex < endIndex
        THEN treePush(toTree(extract(rest, nextEndIndex, endIndex),
                             nextEndIndex, endIndex))
        ELSE <<>>
  IN IF hasChildren
     THEN Tree(startIndex, endIndex, scan.formats, before \o middle \o after)
     ELSE Tree(startIndex, endIndex, scan.formats \o scan.columnedFormats, <<>>)

\* treeDescent that descends into the whole window again.
treeDescentWhole(m, startIndex, endIndex) ==
  LET copyFormat == extract(m, startIndex, endIndex)
      scan == treeScan(copyFormat, treeVisits(copyFormat, FormatterOrder),
                       startIndex, endIndex,
                       [nextStartIndex |-> endIndex, nextEndIndex |-> startIndex,
                        formats |-> <<>>, columnedFormats |-> <<>>, removed |-> {}])
      rest == treeRest(copyFormat, scan.removed)
  IN IF SumLen(rest, DOMAIN rest) > Len(scan.columnedFormats)
     THEN <<[m |-> rest, startIndex |-> startIndex, endIndex |-> endIndex]>>
     ELSE <<>>

\* The recursive calls one call of Format.toTree makes, in order: the store
\* and the window of each.
treeDescent(m, startIndex, endIndex) ==
  LET copyFormat == extract(m, startIndex, endIndex)
      scan == treeScan(copyFormat, treeVisits(copyFormat, FormatterOrder),
                       startIndex, endIndex,
                       [nextStartIndex |-> endIndex, nextEndIndex |-> startIndex,
                        formats |-> <<>>, columnedFormats |-> <<>>, removed |-> {}])
      rest == treeRest(copyFormat, scan.removed)
      nextStartIndex == scan.nextStartIndex
      nextEndIndex   == scan.nextEndIndex
      hasChildren == SumLen(rest, DOMAIN rest) > Len(scan.columnedFormats)
      before ==
        IF startIndex < nextStartIndex /\ scan.columnedFormats /= <<>>
        THEN <<[m |-> extract(rest, startIndex, nextStartIndex),
                startIndex |-> startIndex, endIndex |-> nextStartIndex]>>
        ELSE <<>>
      middle == <<[m |-> rest, startIndex |-> nextStartIndex,
                   endIndex |-> nextEndIndex]>>
      after ==
        IF nextEndIndex < endIndex
        THEN <<[m |-> extract(rest, nextEndIndex, endIndex),
                startIndex |-> nextEndIndex, endIndex |-> endIndex]>>
        ELSE <<>>
  IN IF hasChildren THEN before \o middle \o after ELSE <<>>

RECURSIVE toTreeDepth(_, _, _, _)
\* The depth of the recursion of Format.toTree on a window, followed for at
\* most `fuel` nested calls; -1 when a call is still open after that.
toTreeDepth(m, startIndex, endIndex, fuel) ==
  IF fuel = 0 THEN -1
  ELSE LET calls == treeDescent(m, startIndex, endIndex)
           depths == {toTreeDepth(calls[c].m, calls[c].startIndex,
                                  calls[c].endIndex, fuel - 1) : c \in 1..Len(calls)}
       IN IF -1 \in depths THEN -1
          ELSE IF depths = {} THEN 1
          ELSE 1 + (CHOOSE d \in depths : \A x \in depths : x <= d)

\* --------------------------------------------------------- state machine
VARIABLES
  fmts,   \* the formatters of the registry
  data,   \* the values and instructions the callers merge
  len,    \* slot.length
  map,    \* Format.map: formatter -> FormatRange[]
  ret,    \* what the last read operation returned
  last    \* the last call: its name and its arguments

vars == <<fmts, data, len, map, ret, last>>

NoReturn == [kind |-> "none"]

Call(op, formatter, a, b, value) ==
  [op |-> op, formatter |-> formatter, a |-> a, b |-> b, value |-> value]

Init ==
  /\ \E sc \in Scenarios : fmts = sc.fmts /\ data = sc.data
  /\ len \in 1..MaxLen
  /\ map = EmptyMap
  /\ ret = NoReturn
  /\ last = Call("new", "none", 0, 0, Undefined)

InlineFormatters == {f \in FormatterNames : Formatters[f].type = "Inline"}
BlockFormatters  == {f \in FormatterNames : Formatters[f].type = "Block"}

\* merge(formatter, {startIndex, endIndex, value}) of an Inline formatter,
\* the range inside the slot.
MergeInline ==
  \E f \in fmts \cap InlineFormatters, s \in 0..len, e \in 0..len, v \in data :
    /\ s < e
    /\ map' = merge(map, len, f, Range(s, e, v))
    /\ last' = Call("merge", f, s, e, v)
    /\ ret' = NoReturn
    /\ UNCHANGED <<fmts, data, len>>

\* merge(formatter, value) of a Block formatter.
MergeBlock ==
  \E f \in fmts \cap BlockFormatters, v \in data :
    /\ map' = merge(map, len, f, v)
    /\ \A g \in DOMAIN map' : Len(map'[g]) <= MaxRanges
    /\ last' = Call("merge", f, 0, len, v)
    /\ ret' = NoReturn
    /\ UNCHANGED <<fmts, data, len>>

\* The slot inserts count positions at index and calls stretch.
Stretch ==
  \E index \in 0..len, count \in 1..MaxCount :
    /\ len + count <= MaxLen
    /\ map' = stretch(map, index, count)
    /\ len' = len + count
    /\ last' = Call("stretch", "none", index, count, Undefined)
    /\ ret' = NoReturn
    /\ UNCHANGED <<fmts, data>>

\* The slot inserts distance positions at index and calls split; slot.length
\* read by split is the length before or after the insertion.
Split ==
  \E index \in 0..len, distance \in 1..MaxCount : \E at \in {len, len + distance} :
    /\ len + distance <= MaxLen
    /\ map' = split(map, at, index, distance)
    /\ len' = len + distance
    /\ last' = Call("split", "none", index, distance, Undefined)
    /\ ret' = NoReturn
    /\ UNCHANGED <<fmts, data>>

\* The slot deletes count positions from startIndex and calls shrink; the
\* slot keeps at least its placeholder.
Shrink ==
  \E startIndex \in 0..len, count \in 1..MaxCount : \E at \in {len, len - count} :
    /\ startIndex + count <= len
    /\ len - count >= 1
    /\ map' = shrink(map, at, startIndex, count)
    /\ len' = len - count
    /\ last' = Call("shrink", "none", startIndex, count, Undefined)
    /\ ret' = NoReturn
    /\ UNCHANGED <<fmts, data>>

\* extract(startIndex, endIndex) of a window of the slot.
Extract ==
  \E s \in 0..len, e \in 0..len :
    /\ s < e
    /\ ret' = [kind |-> "format", map |-> extract(map, s, e)]
    /\ last' = Call("extract", "none", s, e, Undefined)
    /\ UNCHANGED <<fmts, data, len, map>>

\* createFormatByRange(slot', startIndex, endIndex) of a window of the slot.
CreateFormatByRange ==
  \E s \in 0..len, e \in 0..len :
    /\ s < e
    /\ ret' = [kind |-> "format", map |-> createFormatByRange(map, s, e)]
    /\ last' = Call("createFormatByRange", "none", s, e, Undefined)
    /\ UNCHANGED <<fmts, data, len, map>>

\* toTree(startIndex, endIndex) of a window of the slot.
ToTree ==
  \E s \in 0..len, e \in 0..len :
    /\ s < e
    /\ ret' = [kind |-> "tree", tree |-> toTree(map, s, e)]
    /\ last' = Call("toTree", "none", s, e, Undefined)
    /\ UNCHANGED <<fmts, data, len, map>>

\* extractFormatsByIndex(index) at an offset of the slot.
ExtractFormatsByIndex ==
  \E index \in 0..len :
    /\ ret' = [kind |-> "formats", formats |-> extractFormatsByIndex(map, index)]
    /\ last' = Call("extractFormatsByIndex", "none", index, 0, Undefined)
    /\ UNCHANGED <<fmts, data, len, map>>

\* toGrid().
ToGrid ==
  /\ ret' = [kind |-> "grid", grid |-> toGrid(map, len)]
  /\ last' = Call("toGrid", "none", 0, 0, Undefined)
  /\ UNCHANGED <<fmts, data, len, map>>

\* discard(formatter, startIndex, endIndex) of a window of the slot.
Discard ==
  \E f \in fmts, s \in 0..len, e \in 0..len :
    /\ s < e
    /\ map' = discard(map, len, f, s, e)
    /\ last' = Call("discard", f, s, e, Undefined)
    /\ ret' = NoReturn
    /\ UNCHANGED <<fmts, data, len>>

Next ==
  \/ MergeInline \/ MergeBlock \/ Stretch \/ Split \/ Shrink
  \/ Extract \/ CreateFormatByRange \/ ToTree
  \/ ExtractFormatsByIndex \/ ToGrid \/ Discard

Spec == Init /\ [][Next]_vars

\* The same machine with callers that also merge malformed inline ranges:
\* indices beyond slot.length, or startIndex >= endIndex.
MergeRaw ==
  \E f \in fmts \cap InlineFormatters, s \in 0..(MaxLen + 1), e \in 0..(MaxLen + 1),
     v \in data :
    /\ ~(s < e /\ e <= len)
    /\ map' = merge(map, len, f, Range(s, e, v))
    /\ last' = Call("merge", f, s, e, v)
    /\ ret' = NoReturn
    /\ UNCHANGED <<fmts, data, len>>

NextRaw == Next \/ MergeRaw

ScenariosRaw ==
  { [fmts |-> {"bold"},          data |-> {Prim(1), Null}],
    [fmts |-> {"comment"},       data |-> {Prim(1)}],
    [fmts |-> {"bold", "align"}, data |-> {Prim(1)}] }

InitRaw ==
  /\ \E sc \in ScenariosRaw : fmts = sc.fmts /\ data = sc.data
  /\ len \in 1..MaxLen
  /\ map = EmptyMap
  /\ ret = NoReturn
  /\ last = Call("new", "none", 0, 0, Undefined)

SpecRaw == InitRaw /\ [][NextRaw]_vars

\* ------------------------------------------------------ objects and sharing
\* The same store with the identity of its objects: a Format's Map, the
\* arrays it holds and the range objects in them.  A heap is three lists,
\* the position of an object being its identity: F the Maps (formatter ->
\* array), A the arrays (lists of ranges) and R the range objects.  A
\* statement of the source that builds an object appends to a list; a
\* statement that assigns to a field or splices an array writes in place.

\* Largest number of calls made on one store in the machine with objects.
MaxSteps == 3

\* new Format(slot) as the first object of a heap.
NewHeap == [F |-> <<EmptyMap>>, A |-> <<>>, R |-> <<>>]

\* The store of Format fid by value.
Deref(h, fid) ==
  [g \in DOMAIN h.F[fid] |->
     [i \in 1..Len(h.A[h.F[fid][g]]) |-> h.R[h.A[h.F[fid][g]][i]]]]

\* The range objects in the arrays of Format fid.
hRangeIds(h, fid) ==
  UNION {{h.A[h.F[fid][g]][i] : i \in 1..Len(h.A[h.F[fid][g]])} :
           g \in DOMAIN h.F[fid]}

\* A new array of new range objects: [{...}, {...}].
hAlloc(h, ranges) ==
  [h |-> [h EXCEPT !.R = @ \o ranges,
                   !.A = Append(@, [i \in 1..Len(ranges) |-> Len(h.R) + i])],
   a |-> Len(h.A) + 1]

RECURSIVE hSetKeys(_, _, _, _)
\* For each key of the list: map.set(key, <new array of the ranges newMap
\* has for it>), or map.delete(key) when newMap has none, on the Map of fid.
hSetKeys(h, fid, keys, newMap) ==
  IF keys = <<>> THEN h
  ELSE LET g == Head(keys) IN
       IF g \in DOMAIN newMap
       THEN LET al == hAlloc(h, newMap[g])
            IN hSetKeys([al.h EXCEPT !.F[fid] = MapSet(@, g, al.a)],
                        fid, Tail(keys), newMap)
       ELSE hSetKeys([h EXCEPT !.F[fid] = MapDelete(@, g)], fid, Tail(keys), newMap)

\* Assignments to the fields of the range objects ids: each becomes what
\* moved has for it.
hWrite(h, ids, moved) ==
  [h EXCEPT !.R = [id \in 1..Len(h.R) |->
                     IF id \in ids THEN moved[id] ELSE h.R[id]]]

\* Format.merge on the objects.  The arrays it stores are new, with new range
\* objects, but for an overlap Block formatter, whose new array holds the old
\* range objects, regrouped, and one new layer.
hMerge(h, fid, slotLength, formatter, datum) ==
  LET old == Deref(h, fid)
      new == merge(old, slotLength, formatter, datum)
  IN IF Formatters[formatter].type = "Block"
     THEN
       IF isVoid(datum) THEN hSetKeys(h, fid, <<formatter>>, new)
       ELSE IF Formatters[formatter].overlap
       THEN IF isClean(datum)
            THEN IF isVoid(CleanValue(datum))
                 THEN hSetKeys(h, fid, <<formatter>>, new)
                 ELSE h
            ELSE LET oldIds == IF formatter \in DOMAIN h.F[fid]
                               THEN h.A[h.F[fid][formatter]] ELSE <<>>
                     items == [i \in 1..Len(oldIds) |->
                                 [value |-> h.R[oldIds[i]].value, id |-> oldIds[i]]]
                     kept  == Flat(GroupValues(formatRangesToMap(items)))
                     layer == Len(h.R) + 1
                     h1 == [h EXCEPT
                              !.R = Append(@, Range(0, slotLength, datum)),
                              !.A = Append(@, [i \in 1..Len(kept) |-> kept[i].id]
                                              \o <<layer>>)]
                 IN [h1 EXCEPT !.F[fid] = MapSet(@, formatter, Len(h1.A))]
       ELSE IF isClean(datum) /\ new = old THEN h
       ELSE hSetKeys(h, fid, <<formatter>>, new)
     ELSE
       IF formatter \notin DOMAIN old /\ isVoid(datum.value) THEN h
       ELSE hSetKeys(h, fid, <<formatter>>, new)

\* Format.stretch on the objects: the fields of the stored ranges are
\* assigned in place.
hStretch(h, fid, index, count) ==
  LET moved == [id \in 1..Len(h.R) |-> stretchRange(h.R[id], index, count)]
  IN hWrite(h, hRangeIds(h, fid), moved)

\* Format.split on the objects: the Block ranges are assigned in place, the
\* Inline keys are set to new arrays.
hSplit(h, fid, slotLength, index, distance) ==
  LET old == Deref(h, fid)
      new == split(old, slotLength, index, distance)
      blockIds == UNION {{h.A[h.F[fid][g]][i] : i \in 1..Len(h.A[h.F[fid][g]])} :
                           g \in {k \in DOMAIN h.F[fid] : Formatters[k].type = "Block"}}
      moved == [id \in 1..Len(h.R) |-> [h.R[id] EXCEPT !.endIndex = @ + distance]]
      isInline(g) == Formatters[g].type = "Inline"
  IN hSetKeys(hWrite(h, blockIds, moved), fid, SelectSeq(MapKeys(old), isInline), new)

\* Format.shrink on the objects: the stored ranges are assigned in place,
\* then every key is set to a new array or deleted.
hShrink(h, fid, slotLength, startIndex, count) ==
  LET old == Deref(h, fid)
      new == shrink(old, slotLength, startIndex, count)
      moved == [id \in 1..Len(h.R) |-> shrinkRange(h.R[id], startIndex, count)]
  IN hSetKeys(hWrite(h, hRangeIds(h, fid), moved), fid, MapKeys(old), new)

\* hExtract whose Format holds the arrays of the Format it was cut from.
hExtractShared(h, fid, startIndex, endIndex) ==
  LET cut == extract(Deref(h, fid), startIndex, endIndex)
  IN [h |-> [h EXCEPT !.F = Append(@, [g \in DOMAIN cut |-> h.F[fid][g]])],
      f |-> Len(h.F) + 1]

\* Format.extract on the objects: a new Format whose arrays and ranges are
\* new objects.
hExtract(h, fid, startIndex, endIndex) ==
  LET cut == extract(Deref(h, fid), startIndex, endIndex)
      h0  == [h EXCEPT !.F = Append(@, EmptyMap)]
  IN [h |-> hSetKeys(h0, Len(h0.F), MapKeys(cut), cut), f |-> Len(h0.F)]

\* Format.createFormatByRange on the objects: the ranges of the new Format
\* are assigned in place.
hCreateFormatByRange(h, fid, startIndex, endIndex) ==
  LET x == hExtract(h, fid, startIndex, endIndex)
      moved == [id \in 1..Len(x.h.R) |->
                  [x.h.R[id] EXCEPT !.startIndex = @ - startIndex,
                                    !.endIndex = @ - startIndex]]
  IN [h |-> hWrite(x.h, hRangeIds(x.h, x.f), moved), f |-> x.f]

\* The splices and deletes of the first loop of toTree on the Format cid.
hSplice(h, cid, removed) ==
  LET keyOf(aid) == CHOOSE g \in DOMAIN h.F[cid] : h.F[cid][g] = aid
      held(aid)  == \E g \in DOMAIN h.F[cid] : h.F[cid][g] = aid
      arrays == [aid \in 1..Len(h.A) |->
                   IF held(aid)
                   THEN SelectIndices(h.A[aid], 1,
                          {i \in 1..Len(h.A[aid]) : <<keyOf(aid), i>> \in removed})
                   ELSE h.A[aid]]
  IN [h EXCEPT !.A = arrays,
               !.F[cid] = [g \in {k \in DOMAIN h.F[cid] : arrays[h.F[cid][k]] /= <<>>}
                             |-> h.F[cid][g]]]

RECURSIVE hToTree(_, _, _, _)
\* Format.toTree on the objects: the heap after the call.
hToTree(h, fid, startIndex, endIndex) ==
  LET copied == hExtract(h, fid, startIndex, endIndex)
      copyFormat == Deref(copied.h, copied.f)
      scan == treeScan(copyFormat, treeVisits(copyFormat, FormatterOrder),
                       startIndex, endIndex,
                       [nextStartIndex |-> endIndex, nextEndIndex |-> startIndex,
                        formats |-> <<>>, columnedFormats |-> <<>>, removed |-> {}])
      h1 == hSplice(copied.h, copied.f, scan.removed)
      rest == Deref(h1, copied.f)
      nextStartIndex == scan.nextStartIndex
      nextEndIndex   == scan.nextEndIndex
      hasChildren == SumLen(rest, DOMAIN rest) > Len(scan.columnedFormats)
      h2 == IF startIndex < nextStartIndex /\ scan.columnedFormats /= <<>>
            THEN LET b == hExtract(h1, copied.f, startIndex, nextStartIndex)
                 IN hToTree(b.h, b.f, startIndex, nextStartIndex)
            ELSE h1
      h3 == hToTree(h2, copied.f, nextStartIndex, nextEndIndex)
      h4 == IF nextEndIndex < endIndex
            THEN LET a == hExtract(h3, copied.f, nextEndIndex, endIndex)
                 IN hToTree(a.h, a.f, nextEndIndex, endIndex)
            ELSE h3
  IN IF hasChildren THEN h4 ELSE h1

\* extractFormatsByIndex, toGrid, toJSON and toArray on the objects: they
\* read the Map, the arrays and the ranges and build lists and literals of
\* their own; no object of the heap is written.
hRead(h, fid) == h

\* In the machine with objects `ret` holds the heap, the Format returned by
\* the last extract (0: none yet), that Format by value as it was returned,
\* and the number of calls made; the store is Format 1 and `map` is the
\* store by value.
Objects(h, held, snap, steps) ==
  [kind |-> "objects", heap |-> h, held |-> held, snap |-> snap, steps |-> steps]

ScenariosHeap ==
  { [fmts |-> {"bold", "align"}, data |-> {Prim(1), Null}],
    [fmts |-> {"cell", "column"}, data |-> {Prim(1)}] }

InitHeap ==
  /\ \E sc \in ScenariosHeap : fmts = sc.fmts /\ data = sc.data
  /\ len \in 1..MaxLen
  /\ map = EmptyMap
  /\ ret = Objects(NewHeap, 0, EmptyMap, 0)
  /\ last = Call("new", "none", 0, 0, Undefined)

HeapMergeInline ==
  \E f \in fmts \cap InlineFormatters, s \in 0..len, e \in 0..len, v \in data :
    /\ s < e
    /\ ret.steps < MaxSteps
    /\ map' = merge(map, len, f, Range(s, e, v))
    /\ ret' = [ret EXCEPT !.heap = hMerge(@, 1, len, f, Range(s, e, v)),
                          !.steps = @ + 1]
    /\ last' = Call("merge", f, s, e, v)
    /\ UNCHANGED <<fmts, data, len>>

HeapMergeBlock ==
  \E f \in fmts \cap BlockFormatters, v \in data :
    /\ ret.steps < MaxSteps
    /\ map' = merge(map, len, f, v)
    /\ ret' = [ret EXCEPT !.heap = hMerge(@, 1, len, f, v), !.steps = @ + 1]
    /\ last' = Call("merge", f, 0, len, v)
    /\ UNCHANGED <<fmts, data, len>>

HeapStretch ==
  \E index \in 0..len, count \in 1..MaxCount :
    /\ ret.steps < MaxSteps
    /\ len + count <= MaxLen
    /\ map' = stretch(map, index, count)
    /\ ret' = [ret EXCEPT !.heap = hStretch(@, 1, index, count), !.steps = @ + 1]
    /\ len' = len + count
    /\ last' = Call("stretch", "none", index, count, Undefined)
    /\ UNCHANGED <<fmts, data>>

HeapSplit ==
  \E index \in 0..len, distance \in 1..MaxCount : \E at \in {len, len + distance} :
    /\ ret.steps < MaxSteps
    /\ len + distance <= MaxLen
    /\ map' = split(map, at, index, distance)
    /\ ret' = [ret EXCEPT !.heap = hSplit(@, 1, at, index, distance), !.steps = @ + 1]
    /\ len' = len + distance
    /\ last' = Call("split", "none", index, distance, Undefined)
    /\ UNCHANGED <<fmts, data>>

HeapShrink ==
  \E startIndex \in 0..len, count \in 1..MaxCount : \E at \in {len, len - count} :
    /\ ret.steps < MaxSteps
    /\ startIndex + count <= len
    /\ len - count >= 1
    /\ map' = shrink(map, at, startIndex, count)
    /\ ret' = [ret EXCEPT !.heap = hShrink(@, 1, at, startIndex, count),
                          !.steps = @ + 1]
    /\ len' = len - count
    /\ last' = Call("shrink", "none", startIndex, count, Undefined)
    /\ UNCHANGED <<fmts, data>>

\* extract: the returned Format is held from now on.
HeapExtract ==
  \E s \in 0..len, e \in 0..len :
    /\ s < e
    /\ ret.steps < MaxSteps
    /\ LET x == hExtract(ret.heap, 1, s, e)
       IN ret' = Objects(x.h, x.f, Deref(x.h, x.f), ret.steps + 1)
    /\ last' = Call("extract", "none", s, e, Undefined)
    /\ UNCHANGED <<fmts, data, len, map>>

HeapCreateFormatByRange ==
  \E s \in 0..len, e \in 0..len :
    /\ s < e
    /\ ret.steps < MaxSteps
    /\ ret' = [ret EXCEPT !.heap = hCreateFormatByRange(@, 1, s, e).h, !.steps = @ + 1]
    /\ last' = Call("createFormatByRange", "none", s, e, Undefined)
    /\ UNCHANGED <<fmts, data, len, map>>

HeapToTree ==
  \E s \in 0..len, e \in 0..len :
    /\ s < e
    /\ ret.steps < MaxSteps
    /\ ret' = [ret EXCEPT !.heap = hToTree(@, 1, s, e), !.steps = @ + 1]
    /\ last' = Call("toTree", "none", s, e, Undefined)
    /\ UNCHANGED <<fmts, data, len, map>>

\* extractFormatsByIndex, toGrid, toJSON or toArray.
HeapRead ==
  \E op \in {"extractFormatsByIndex", "toGrid", "toJSON", "toArray"} :
    /\ ret.steps < MaxSteps
    /\ ret' = [ret EXCEPT !.heap = hRead(@, 1), !.steps = @ + 1]
    /\ last' = Call(op, "none", 0, 0, Undefined)
    /\ UNCHANGED <<fmts, data, len, map>>

NextHeap ==
  \/ HeapMergeInline \/ HeapMergeBlock \/ HeapStretch \/ HeapSplit \/ HeapShrink
  \/ HeapExtract \/ HeapCreateFormatByRange \/ HeapToTree \/ HeapRead

SpecHeap == InitHeap /\ [][NextHeap]_vars

\* ------------------------------------------------ tileRanges and toRanges
\* The two conversions on their own: a slot of length len, dense arrays of
\* FormatValues and range lists handed to Format.toRanges and to
\* Format.tileRanges, each either fresh or what the other one just returned.
\* ret.origin is then what the other one had been given.
TileValues == {Undefined, Null, Prim(1), Obj({<<"a", 1>>})}

ValueArrays(n) == UNION {[1..k -> TileValues] : k \in 0..n}

\* Lists of at most two ranges, in or out of order, empty ones included.
RangeLists(n) ==
  LET spans  == {se \in (0..n) \X (0..n) : se[1] <= se[2]}
      ranges == {Range(se[1], se[2], v) : se \in spans,
                                          v \in TileValues \ {Undefined, Null}}
  IN {<<>>} \cup {<<r>> : r \in ranges}
            \cup {<<r1, r2>> : r1 \in ranges, r2 \in ranges}

Converted(op, chained, origin, input, output) ==
  [kind |-> "converted", op |-> op, chained |-> chained, origin |-> origin,
   input |-> input, output |-> output]

InitTiles ==
  /\ fmts = {}
  /\ data = TileValues
  /\ len \in 1..MaxLen
  /\ map = EmptyMap
  /\ ret = NoReturn
  /\ last = Call("new", "none", 0, 0, Undefined)

\* Format.toRanges(values) of an array no longer than the slot.
ToRanges ==
  /\ \E values \in ValueArrays(len) :
       ret' = Converted("toRanges", FALSE, <<>>, values, toRanges(values))
  /\ last' = Call("toRanges", "none", 0, 0, Undefined)
  /\ UNCHANGED <<fmts, data, len, map>>

\* this.tileRanges(ranges)
TileRanges ==
  /\ \E ranges \in RangeLists(len) :
       ret' = Converted("tileRanges", FALSE, <<>>, ranges, tileRanges(ranges, len))
  /\ last' = Call("tileRanges", "none", 0, 0, Undefined)
  /\ UNCHANGED <<fmts, data, len, map>>

\* Format.toRanges(this.tileRanges(ranges)), as normalizeFormatRange ends.
ToRangesOfTiled ==
  /\ ret /= NoReturn /\ ret.op = "tileRanges"
  /\ ret' = Converted("toRanges", TRUE, ret.input, ret.output, toRanges(ret.output))
  /\ last' = Call("toRanges", "none", 0, 0, Undefined)
  /\ UNCHANGED <<fmts, data, len, map>>

\* this.tileRanges(Format.toRanges(values))
TileRangesOfRanges ==
  /\ ret /= NoReturn /\ ret.op = "toRanges"
  /\ ret' = Converted("tileRanges", TRUE, ret.input, ret.output,
                      tileRanges(ret.output, len))
  /\ last' = Call("tileRanges", "none", 0, 0, Undefined)
  /\ UNCHANGED <<fmts, data, len, map>>

NextTiles == ToRanges \/ TileRanges \/ ToRangesOfTiled \/ TileRangesOfRanges

SpecTiles == InitTiles /\ [][NextTiles]_vars

\* ------------------------------------------------- insertion then deletion
\* The slot inserts count positions at index (stretch when the inserted
\* content inherits the formats, split when it does not) and then deletes the
\* same span (shrink).  ret keeps the store as it was before the insertion.
Inserted(kind, op, index, count, before) ==
  [kind |-> kind, op |-> op, index |-> index, count |-> count, before |-> before]

ScenariosEdit ==
  { [fmts |-> {"bold", "column"},    data |-> {Prim(1), Null}],
    [fmts |-> {"comment"},           data |-> {Prim(1), Prim(2), Null}],
    [fmts |-> {"column", "comment"}, data |-> {Prim(1)}],
    [fmts |-> {"bold", "align"},     data |-> {Prim(1), Prim(2)}],
    [fmts |-> {"cell"},              data |-> {Prim(1), Prim(2)}] }

InitEdit ==
  /\ \E sc \in ScenariosEdit : fmts = sc.fmts /\ data = sc.data
  /\ len \in 1..MaxLen
  /\ map = EmptyMap
  /\ ret = NoReturn
  /\ last = Call("new", "none", 0, 0, Undefined)

\* stretch(index, count) on insertion, the store before it remembered.
InsertByStretch ==
  \E index \in 0..len, count \in 1..MaxCount :
    /\ len + count <= MaxLen
    /\ map' = stretch(map, index, count)
    /\ len' = len + count
    /\ last' = Call("stretch", "none", index, count, Undefined)
    /\ ret' = Inserted("inserted", "stretch", index, count, map)
    /\ UNCHANGED <<fmts, data>>

\* split(index, distance) on insertion, the store before it remembered.
InsertBySplit ==
  \E index \in 0..len, distance \in 1..MaxCount : \E at \in {len, len + distance} :
    /\ len + distance <= MaxLen
    /\ map' = split(map, at, index, distance)
    /\ len' = len + distance
    /\ last' = Call("split", "none", index, distance, Undefined)
    /\ ret' = Inserted("inserted", "split", index, distance, map)
    /\ UNCHANGED <<fmts, data>>

\* shrink(index, count) of the span that was just inserted.
DeleteInserted ==
  /\ ret.kind = "inserted"
  /\ \E at \in {len, len - ret.count} :
       map' = shrink(map, at, ret.index, ret.count)
  /\ len' = len - ret.count
  /\ last' = Call("shrink", "none", ret.index, ret.count, Undefined)
  /\ ret' = [ret EXCEPT !.kind = "restored"]
  /\ UNCHANGED <<fmts, data>>

NextEdit ==
  \/ MergeInline \/ MergeBlock
  \/ InsertByStretch \/ InsertBySplit \/ DeleteInserted

SpecEdit == InitEdit /\ [][NextEdit]_vars

\* ------------------------------------------------------------- CoreEditor
\* One CoreEditor instance and what it touches: the host element, the
\* layouts createLayout made, the bootstrap promises still pending, the
\* Starters they resolved to, the Subscriptions in this.subs and the plugins.
\* The n-th init call that gets past its first test makes layout n, bootstrap
\* promise n and, once resolved, Starter n.  The machine keeps the instance in
\* ret and the call in last.
MaxInits == 2
MaxChanges == 2

Plugins == {"plugin"}

\* options.plugins of the init calls; no plugins option at all gives [].
EditorOptions == {[plugins |-> {}], [plugins |-> Plugins]}

\* new CoreEditor(): the field initializers, lines 44-60.  workbench has no
\* initializer and is undefined (0) until init assigns it; injector 0 is
\* null.
NewCoreEditor ==
  [kind |-> "editor",
   destroyed |-> FALSE,
   isReady |-> FALSE,
   injector |-> 0,
   options |-> [none |-> TRUE],
   plugins |-> {},
   subs |-> <<>>,
   workbench |-> 0,
   host |-> {},
   layouts |-> 0,
   pending |-> {},
   mounted |-> {},
   unsubscribes |-> <<>>,
   onDestroys |-> [p \in Plugins |-> 0],
   destroys |-> [n \in 1..MaxInits |-> 0],
   changes |-> 0,
   outcome |-> "returned"]

\* CoreEditor.init up to the call of bootstrap: a rejected promise for a
\* destroyed editor, else the options and plugins are taken, a layout is made
\* and appended to the host, and the bootstrap promise is pending.
init(ed, options) ==
  IF ed.destroyed
  THEN [ed EXCEPT !.outcome = "rejected"]
  ELSE LET n == ed.layouts + 1
       IN [ed EXCEPT !.options = options,
                     !.plugins = options.plugins,
                     !.layouts = n,
                     !.host = @ \cup {n},
                     !.workbench = n,
                     !.pending = @ \cup {n},
                     !.outcome = "pending"]

\* The callback init gives to bootstrap(...).then, run when promise n
\* resolves: the root component is mounted, renderer.onViewChecked is
\* subscribed and the subscription pushed, isReady and injector are set.
bootstrapThen(ed, n) ==
  [ed EXCEPT !.pending = @ \ {n},
             !.mounted = @ \cup {n},
             !.subs = Append(@, [starter |-> n, closed |-> FALSE]),
             !.unsubscribes = Append(@, 0),
             !.isReady = TRUE,
             !.injector = n,
             !.outcome = "resolved"]

\* The two tests CoreEditor.getContents starts with; what follows reads the
\* injector and the options and returns.
getContents(ed) ==
  IF ed.destroyed THEN [ed EXCEPT !.outcome = "threw editorError"]
  ELSE IF ~ed.isReady THEN [ed EXCEPT !.outcome = "threw editorError"]
  ELSE [ed EXCEPT !.outcome = "returned"]

\* getJSON that only tests destroyed.
getJSONUnready(ed) ==
  IF ed.destroyed THEN [ed EXCEPT !.outcome = "threw editorError"]
  ELSE [ed EXCEPT !.outcome = "returned"]

\* CoreEditor.getJSON: the same two tests.
getJSON(ed) ==
  IF ed.destroyed THEN [ed EXCEPT !.outcome = "threw editorError"]
  ELSE IF ~ed.isReady THEN [ed EXCEPT !.outcome = "threw editorError"]
  ELSE [ed EXCEPT !.outcome = "returned"]

\* CoreEditor.destroy.  this.workbench.parentNode reads a property of
\* undefined when init never assigned workbench: a TypeError, thrown after
\* everything before that statement has run.
destroy(ed) ==
  IF ed.destroyed
  THEN [ed EXCEPT !.outcome = "returned"]
  ELSE LET closed == [ed EXCEPT
                        !.destroyed = TRUE,
                        !.subs = [i \in 1..Len(@) |-> [@[i] EXCEPT !.closed = TRUE]],
                        !.unsubscribes = [i \in 1..Len(@) |-> @[i] + 1],
                        !.onDestroys = [p \in Plugins |->
                                          IF p \in ed.plugins THEN @[p] + 1 ELSE @[p]],
                        !.destroys = [n \in 1..MaxInits |->
                                        IF n = ed.injector THEN @[n] + 1 ELSE @[n]]]
       IN IF ed.workbench = 0
          THEN [closed EXCEPT !.outcome = "threw TypeError"]
          ELSE [closed EXCEPT !.host = @ \ {ed.workbench},
                              !.outcome = "returned"]

\* renderer.onViewChecked of Starter n emits: every subscription to it that
\* is still open calls this.changeEvent.next().
viewChecked(ed, n) ==
  LET open == {i \in 1..Len(ed.subs) :
                 ed.subs[i].starter = n /\ ~ed.subs[i].closed}
  IN [ed EXCEPT !.changes = @ + Cardinality(open)]

InitCore ==
  /\ fmts = {}
  /\ data = {}
  /\ len = 1
  /\ map = EmptyMap
  /\ ret = NewCoreEditor
  /\ last = Call("new", "none", 0, 0, Undefined)

CoreInit ==
  /\ ret.layouts < MaxInits
  /\ \E options \in EditorOptions : ret' = init(ret, options)
  /\ last' = Call("init", "none", 0, 0, Undefined)
  /\ UNCHANGED <<fmts, data, len, map>>

\* A bootstrap promise resolves and its then-callback runs.
BootstrapResolves ==
  /\ \E n \in ret.pending : ret' = bootstrapThen(ret, n)
  /\ last' = Call("then", "none", 0, 0, Undefined)
  /\ UNCHANGED <<fmts, data, len, map>>

CoreGetContents ==
  /\ ret' = getContents(ret)
  /\ last' = Call("getContents", "none", 0, 0, Undefined)
  /\ UNCHANGED <<fmts, data, len, map>>

CoreGetJSON ==
  /\ ret' = getJSON(ret)
  /\ last' = Call("getJSON", "none", 0, 0, Undefined)
  /\ UNCHANGED <<fmts, data, len, map>>

CoreDestroy ==
  /\ ret' = destroy(ret)
  /\ last' = Call("destroy", "none", 0, 0, Undefined)
  /\ UNCHANGED <<fmts, data, len, map>>

\* The renderer of a mounted document reports a checked view.
ViewChecked ==
  /\ ret.changes < MaxChanges
  /\ \E n \in ret.mounted :
       /\ ret.destroys[n] = 0
       /\ ret' = [viewChecked(ret, n) EXCEPT !.outcome = "returned"]
  /\ last' = Call("onViewChecked", "none", 0, 0, Undefined)
  /\ UNCHANGED <<fmts, data, len, map>>

NextCore ==
  \/ CoreInit \/ BootstrapResolves \/ CoreGetContents \/ CoreGetJSON
  \/ CoreDestroy \/ ViewChecked

SpecCore == InitCore /\ [][NextCore]_vars

\* ----------------------------------------------------------------- Editor
\* One Editor (lib/editor.ts): the constructor subscribes a handler to
\* layout.onReady; setContents goes through run, which queues the task until
\* readyState is set.  A task is kept as the html it was called with, the
\* root slot as the html its content was parsed from ("none": no injector and
\* no RootComponent yet).
MaxTasks == 3

Htmls == {"<p>a</p>", "<p>b</p>"}

\* options.contents: absent, or the initial document.
Contents == {"", "<p>initial</p>"}

\* new Editor(selector, options), lines 81-160: the fields, and the handler
\* subscribed to layout.onReady.
NewEditor(options) ==
  [kind |-> "Editor",
   options |-> options,
   injector |-> FALSE,
   readyState |-> FALSE,
   tasks |-> <<>>,
   runs |-> <<>>,
   subscribed |-> TRUE,
   slot |-> "none",
   promise |-> "none",
   readyEvents |-> 0,
   slotAtReady |-> "none"]

\* The task setContents hands to run: the html is parsed into the root slot
\* and the promise of that call resolved (a queued task is run when
\* runs counts it).
task(ed, html) ==
  [ed EXCEPT !.slot = html]

\* Editor.run inside Editor.setContents(html).
setContents(ed, html) ==
  IF ~ed.readyState
  THEN [ed EXCEPT !.tasks = Append(@, html), !.runs = Append(@, 0),
                  !.promise = "pending"]
  ELSE [task(ed, html) EXCEPT !.promise = "resolved"]

RECURSIVE tasksForEach(_, _)
\* this.tasks.forEach(fn => fn()) from task i on.
tasksForEach(ed, i) ==
  IF i > Len(ed.tasks) THEN ed
  ELSE tasksForEach([task(ed, ed.tasks[i]) EXCEPT !.runs[i] = @ + 1], i + 1)

\* The handler of layout.onReady: the injector is made, the queued tasks run,
\* then the root slot is filled from options.contents || '<p><br></p>',
\* readyState is set and readyEvent emits.
onLayoutReady(ed) ==
  LET ran    == tasksForEach([ed EXCEPT !.injector = TRUE], 1)
      filled == IF ed.options.contents /= "" THEN ed.options.contents
                ELSE "<p><br></p>"
  IN [ran EXCEPT !.slot = filled,
                 !.promise = IF ed.tasks = <<>> THEN @ ELSE "resolved",
                 !.readyState = TRUE,
                 !.readyEvents = @ + 1,
                 !.slotAtReady = filled]

\* Editor.destroy: every subscription in this.subs is closed, the one to
\* layout.onReady among them.
editorDestroy(ed) == [ed EXCEPT !.subscribed = FALSE]

InitEditor ==
  /\ fmts = {}
  /\ data = {}
  /\ len = 1
  /\ map = EmptyMap
  /\ \E contents \in Contents : ret = NewEditor([contents |-> contents])
  /\ last = Call("new", "none", 0, 0, Undefined)

SetContents ==
  /\ \E html \in Htmls :
       /\ ret' = setContents(ret, html)
       /\ last' = Call("setContents", "none", 0, 0, html)
  /\ Len(ret'.tasks) <= MaxTasks
  /\ UNCHANGED <<fmts, data, len, map>>

\* layout.onReady emits its one value to the handler, while it is subscribed.
LayoutReady ==
  /\ ret.subscribed /\ ~ret.readyState
  /\ ret' = onLayoutReady(ret)
  /\ last' = Call("onReady", "none", 0, 0, Undefined)
  /\ UNCHANGED <<fmts, data, len, map>>

EditorDestroy ==
  /\ ret' = editorDestroy(ret)
  /\ last' = Call("destroy", "none", 0, 0, Undefined)
  /\ UNCHANGED <<fmts, data, len, map>>

NextEditor == SetContents \/ LayoutReady \/ EditorDestroy

SpecEditor == InitEditor /\ [][NextEditor]_vars

\* ----------------------------------------------------------- createEditor
\* The module lib/create.ts: the object defaultOptions and the editors
\* createEditor has made.  Option objects are kept by identity: objects[1] is
\* defaultOptions, every call brings the object its caller passed, and an
\* editor holds the reference its constructor was given (public options).
MaxEditors == 3

OptionKeys == {"theme", "toolbar"}

OptionValues == {"a", "b"}

\* The literal of defaultOptions, lines 64-115 (one key stands for the four).
defaultOptions == [toolbar |-> "default"]

\* The option objects callers pass: any choice of keys; {} when none.
PassedOptions ==
  UNION {[keys -> OptionValues] : keys \in SUBSET OptionKeys}

NewModule ==
  [kind |-> "module", objects |-> <<defaultOptions>>, editors |-> <<>>]

\* Object.assign(target, source): the own properties of source are written
\* into target, and target is what it returns.
ObjectAssign(objects, target, source) ==
  [objects EXCEPT ![target] =
     [k \in DOMAIN objects[target] \cup DOMAIN objects[source] |->
        IF k \in DOMAIN objects[source] THEN objects[source][k]
        ELSE objects[target][k]]]

\* createEditor(selector, options): new Editor(selector,
\* Object.assign(defaultOptions, options)).  passed is the caller's object and
\* options the reference the Editor keeps; created is the value that
\* reference had when the constructor returned.
createEditor(st, options) ==
  LET passed   == Len(st.objects) + 1
      assigned == ObjectAssign(Append(st.objects, options), 1, passed)
  IN [st EXCEPT !.objects = assigned,
                !.editors = Append(@, [options |-> 1, passed |-> passed,
                                       created |-> assigned[1]])]

InitCreate ==
  /\ fmts = {}
  /\ data = {}
  /\ len = 1
  /\ map = EmptyMap
  /\ ret = NewModule
  /\ last = Call("new", "none", 0, 0, Undefined)

CreateEditor ==
  /\ Len(ret.editors) < MaxEditors
  /\ \E options \in PassedOptions :
       /\ ret' = createEditor(ret, options)
       /\ last' = Call("createEditor", "none", 0, 0, options)
  /\ UNCHANGED <<fmts, data, len, map>>

NextCreate == CreateEditor

SpecCreate == InitCreate /\ [][NextCreate]_vars

\* ------------------------------------------------------------- properties
\* The values a formatter carries at offset p.
Cover(m, formatter, p) ==
  IF formatter \notin DOMAIN m THEN {}
  ELSE {m[formatter][i].value :
          i \in {j \in 1..Len(m[formatter]) :
                   m[formatter][j].startIndex <= p /\ p < m[formatter][j].endIndex}}

\* Sorted by startIndex, pairwise disjoint, touching ranges of different values.
Flattened(ranges) ==
  \A i \in 1..Len(ranges), j \in 1..Len(ranges) :
    i < j => /\ ranges[i].startIndex < ranges[j].startIndex
             /\ ranges[i].endIndex <= ranges[j].startIndex
             /\ (ranges[i].endIndex = ranges[j].startIndex
                   => ~equal(ranges[i].value, ranges[j].value))

InSlot(ranges, slotLength) ==
  \A i \in 1..Len(ranges) :
    /\ 0 <= ranges[i].startIndex
    /\ ranges[i].startIndex < ranges[i].endIndex
    /\ ranges[i].endIndex <= slotLength

\* C1: whatever well-formed merge, stretch, split and shrink calls were made,
\* the range list of every formatter with overlap = false is sorted by
\* startIndex, pairwise disjoint, and no two touching ranges carry equal values.
C1_NonOverlapFlattened ==
  \A f \in DOMAIN map : ~Formatters[f].overlap => Flattened(map[f])

\* A non-overlap formatter holds two touching ranges of different values
\* after an edit of the slot.
C1_Witness ==
  /\ last.op \in {"stretch", "split", "shrink"}
  /\ \E f \in DOMAIN map :
       /\ ~Formatters[f].overlap
       /\ \E i \in 1..(Len(map[f]) - 1) :
            map[f][i].endIndex = map[f][i + 1].startIndex

RECURSIVE WellNested(_)
\* The children of every node are ascending, contiguous and cover the node.
WellNested(tree) ==
  /\ tree.startIndex < tree.endIndex
  /\ LET c == tree.children IN
       c /= <<>> =>
         /\ c[1].startIndex = tree.startIndex
         /\ c[Len(c)].endIndex = tree.endIndex
         /\ \A i \in 1..(Len(c) - 1) : c[i].endIndex = c[i + 1].startIndex
         /\ \A i \in 1..Len(c) : WellNested(c[i])

RECURSIVE Leaves(_)
\* The leaf spans of a tree, left to right.
Leaves(tree) ==
  IF tree.children = <<>> THEN <<<<tree.startIndex, tree.endIndex>>>>
  ELSE Flat([i \in 1..Len(tree.children) |-> Leaves(tree.children[i])])

\* The spans start at s, end at e, and each starts where the previous ends.
Partition(spans, s, e) ==
  /\ spans /= <<>>
  /\ spans[1][1] = s
  /\ spans[Len(spans)][2] = e
  /\ \A i \in 1..Len(spans) : spans[i][1] < spans[i][2]
  /\ \A i \in 1..(Len(spans) - 1) : spans[i][2] = spans[i + 1][1]

\* C2: the tree returned by toTree(s, e) is well-nested for any store: the
\* root spans [s, e), the children of every node are ascending, contiguous and
\* cover their parent, and the leaf spans partition [s, e).
C2_TreeWellNested ==
  last.op = "toTree" =>
    /\ ret.tree.startIndex = last.a
    /\ ret.tree.endIndex = last.b
    /\ WellNested(ret.tree)
    /\ Partition(Leaves(ret.tree), last.a, last.b)

\* A tree of a store in which two ranges cross without sharing an endpoint,
\* with a child that has children of its own.
C2_Witness ==
  /\ last.op = "toTree"
  /\ \E f \in DOMAIN map, g \in DOMAIN map :
       \E i \in 1..Len(map[f]), j \in 1..Len(map[g]) :
         /\ last.a <= map[f][i].startIndex
         /\ map[f][i].startIndex < map[g][j].startIndex
         /\ map[g][j].startIndex < map[f][i].endIndex
         /\ map[f][i].endIndex < map[g][j].endIndex
         /\ map[g][j].endIndex <= last.b
  /\ \E i \in 1..Len(ret.tree.children) : ret.tree.children[i].children /= <<>>

\* C5: in every state reached by well-formed calls, every stored range of
\* every formatter satisfies 0 <= startIndex < endIndex <= slot.length.
C5_RangesInSlot ==
  \A f \in DOMAIN map : InSlot(map[f], len)

\* After an insertion or a deletion a range still ends at the end of the slot.
C5_Witness ==
  /\ last.op \in {"stretch", "split", "shrink"}
  /\ \E f \in DOMAIN map : \E i \in 1..Len(map[f]) :
       map[f][i].endIndex = len /\ map[f][i].startIndex > 0

NonOverlapInline ==
  {f \in fmts : Formatters[f].type = "Inline" /\ ~Formatters[f].overlap}

\* C3: for a non-overlap Inline formatter f and a plain value v,
\* merge(f, {s, e, v}) paints: afterwards every offset of [s, e) carries v,
\* every other offset carries what it carried before, and the list is
\* flattened into maximal runs of equal value.
C3_MergePaints ==
  \A f \in NonOverlapInline, s \in 0..len, e \in 0..len, v \in data \cap PlainValues :
    s < e =>
      LET after == merge(map, len, f, Range(s, e, v)) IN
        /\ \A p \in 0..(len - 1) :
             Cover(after, f, p) = IF s <= p /\ p < e THEN {v} ELSE Cover(map, f, p)
        /\ f \in DOMAIN after
        /\ Flattened(after[f])
        /\ InSlot(after[f], len)

\* merge(f, {1, 3, v}) has joined the range it overlapped: f now holds the
\* single range {0, 3, v}.
C3_Witness ==
  /\ last.op = "merge"
  /\ last.formatter \in NonOverlapInline
  /\ last.value \in PlainValues
  /\ last.a = 1 /\ last.b = 3
  /\ map[last.formatter] = <<Range(0, 3, last.value)>>

\* C4: for a non-overlap Inline formatter f, merge(f, {s, e, CleanRule(v)})
\* with non-null v removes f's formatting at the offsets of [s, e) whose value
\* equals v and leaves every other offset unchanged; so after it no offset of
\* [s, e) carries v.
C4_CleanUnsets ==
  ( /\ last.op = "merge"
    /\ last.formatter \in NonOverlapInline
    /\ isClean(last.value)
    /\ ~isVoid(CleanValue(last.value)) )
  => \A p \in last.a..(last.b - 1) :
       CleanValue(last.value) \notin Cover(map, last.formatter, p)

\* C6: merge normalizes a malformed inline range instead of storing it: after
\* merge(f, {startIndex, endIndex, value}) with any indices every stored range
\* of f lies inside [0, slot.length] and has startIndex < endIndex.
C6_MergeClamps ==
  (last.op = "merge" /\ last.formatter \in DOMAIN map)
    => InSlot(map[last.formatter], len)

\* C7: no formatter is a key of the mapping with an empty range list, in the
\* store and in every store returned by extract or createFormatByRange.
C7_NoEmptyEntry ==
  /\ \A f \in DOMAIN map : map[f] /= <<>>
  /\ ret.kind = "format" => \A f \in DOMAIN ret.map : ret.map[f] /= <<>>

\* C8: stretch(index, count) changes each stored range on its own: a range
\* with endIndex < index is unchanged; a range with endIndex >= index gets
\* endIndex + count, and startIndex + count iff its startIndex >= index.
C8_StretchRanges ==
  \A index \in 0..len, count \in 1..MaxCount :
    LET after == stretch(map, index, count) IN
      /\ DOMAIN after = DOMAIN map
      /\ \A f \in DOMAIN map :
           /\ Len(after[f]) = Len(map[f])
           /\ \A i \in 1..Len(map[f]) :
                LET r == map[f][i]
                    q == after[f][i]
                IN /\ q.value = r.value
                   /\ r.endIndex < index => q = r
                   /\ r.endIndex >= index =>
                        /\ q.endIndex = r.endIndex + count
                        /\ q.startIndex = IF r.startIndex >= index
                                          THEN r.startIndex + count
                                          ELSE r.startIndex

\* stretch(index, count) was made inside a range, which now covers the
\* inserted positions: it grew.
C8_Witness ==
  /\ last.op = "stretch"
  /\ \E f \in DOMAIN map : \E i \in 1..Len(map[f]) :
       /\ map[f][i].startIndex < last.a
       /\ map[f][i].endIndex > last.a + last.b

\* Ranges of equal value neither overlap nor touch.
Coalesced(ranges) ==
  \A i \in 1..Len(ranges), j \in 1..Len(ranges) :
    (i /= j /\ equal(ranges[i].value, ranges[j].value))
      => \/ ranges[i].endIndex < ranges[j].startIndex
         \/ ranges[j].endIndex < ranges[i].startIndex

\* C9: shrink(startIndex, count) gives every formatter the per-offset values
\* of the store with the offsets [startIndex, startIndex + count) deleted;
\* empty ranges are dropped, ranges of equal value that meet are coalesced,
\* and a formatter left without a range is removed.
C9_ShrinkDeletes ==
  \A startIndex \in 0..len, count \in 1..MaxCount :
    (startIndex + count <= len /\ len - count >= 1) =>
      \A at \in {len, len - count} :
        LET after == shrink(map, at, startIndex, count) IN
          /\ \A f \in fmts, p \in 0..(len - count - 1) :
               Cover(after, f, p) =
                 Cover(map, f, IF p < startIndex THEN p ELSE p + count)
          /\ DOMAIN after \subseteq DOMAIN map
          /\ \A f \in DOMAIN after :
               /\ after[f] /= <<>>
               /\ InSlot(after[f], len - count)
               /\ Coalesced(after[f])
               /\ ~Formatters[f].overlap => Flattened(after[f])

\* shrink(startIndex, count) was made inside a range, which is still there,
\* shorter, around startIndex.
C9_Witness ==
  /\ last.op = "shrink"
  /\ \E f \in DOMAIN map : \E i \in 1..Len(map[f]) :
       /\ map[f][i].startIndex < last.a
       /\ map[f][i].endIndex > last.a

\* C10: split(index, distance) inserts unformatted positions: for every
\* Inline formatter the offsets below index keep their values, the offsets
\* index .. index + distance - 1 carry none, every offset p >= index + distance
\* carries the values previously at p - distance; every Block range only has
\* its endIndex increased by distance.
C10_SplitInserts ==
  \A index \in 0..len, distance \in 1..MaxCount :
    \A at \in {len, len + distance} :
      LET after == split(map, at, index, distance) IN
        /\ DOMAIN after = DOMAIN map
        /\ \A f \in DOMAIN map :
             IF Formatters[f].type = "Block"
             THEN after[f] = [i \in 1..Len(map[f]) |->
                                [map[f][i] EXCEPT !.endIndex = @ + distance]]
             ELSE \A p \in 0..(len + distance - 1) :
                    Cover(after, f, p) =
                      IF p < index THEN Cover(map, f, p)
                      ELSE IF p < index + distance THEN {}
                      ELSE Cover(map, f, p - distance)

\* split(index, distance) was made inside a range of an Inline formatter,
\* which is now two ranges of the same value around the inserted positions.
C10_Witness ==
  /\ last.op = "split"
  /\ \E f \in DOMAIN map \cap InlineFormatters : \E i \in 1..(Len(map[f]) - 1) :
       /\ map[f][i].endIndex = last.a
       /\ map[f][i + 1].startIndex = last.a + last.b
       /\ map[f][i].startIndex < map[f][i].endIndex
       /\ map[f][i].value = map[f][i + 1].value

\* C11: for a non-overlap Inline formatter f, merge(f, {s, e, null}) removes
\* f's formatting at every offset of [s, e) whatever value it had, leaves
\* every other offset and every other formatter unchanged, stores no range
\* with a null value, removes f's key when no range remains, and changes
\* nothing when f has no ranges.
C11_NullUnsets ==
  \A f \in NonOverlapInline, s \in 0..len, e \in 0..len :
    s < e =>
      LET after == merge(map, len, f, Range(s, e, Null)) IN
        /\ \A p \in 0..(len - 1) :
             Cover(after, f, p) = IF s <= p /\ p < e THEN {} ELSE Cover(map, f, p)
        /\ f \in DOMAIN after =>
             /\ after[f] /= <<>>
             /\ \A i \in 1..Len(after[f]) : after[f][i].value.k /= "null"
             /\ Flattened(after[f])
        /\ f \notin DOMAIN map => after = map
        /\ \A g \in (DOMAIN map) \ {f} : g \in DOMAIN after /\ after[g] = map[g]

\* merge(f, {s, e, null}) has left a hole in f: a range ends at s, a range
\* of the same value starts at e, and nothing of f is left inside [s, e).
C11_Witness ==
  /\ last.op = "merge"
  /\ last.formatter \in NonOverlapInline
  /\ last.value = Null
  /\ last.formatter \in DOMAIN map
  /\ \E i \in 1..(Len(map[last.formatter]) - 1) :
       /\ map[last.formatter][i].endIndex = last.a
       /\ map[last.formatter][i + 1].startIndex = last.b
       /\ map[last.formatter][i].value = map[last.formatter][i + 1].value
  /\ \A p \in last.a..(last.b - 1) : Cover(map, last.formatter, p) = {}

\* C12: for an Inline formatter (overlap or not), once a plain value v has
\* been merged over [s, e), merging v over [s, e) again leaves the store as it
\* is, and the store holds exactly one range of value v that meets [s, e),
\* which covers it.
C12_MergeIdempotent ==
  ( /\ last.op = "merge"
    /\ last.formatter \in InlineFormatters
    /\ last.value \in PlainValues )
  => LET f == last.formatter
         again == merge(map, len, f, Range(last.a, last.b, last.value))
         meet == {i \in 1..Len(map[f]) :
                    /\ map[f][i].value = last.value
                    /\ map[f][i].startIndex < last.b
                    /\ last.a < map[f][i].endIndex}
     IN /\ again = map
        /\ Cardinality(meet) = 1
        /\ \A i \in meet :
             map[f][i].startIndex <= last.a /\ last.b <= map[f][i].endIndex

\* A plain value was merged on an overlap formatter over offsets that carry
\* another value as well.
C12_Witness ==
  /\ last.op = "merge"
  /\ last.formatter \in InlineFormatters
  /\ Formatters[last.formatter].overlap
  /\ last.value \in PlainValues
  /\ Len(map[last.formatter]) >= 2
  /\ \E p \in last.a..(last.b - 1) :
       Cardinality(Cover(map, last.formatter, p)) >= 2

OverlapInline ==
  {f \in fmts : Formatters[f].type = "Inline" /\ Formatters[f].overlap}

\* C13: for an overlap Inline formatter f and a plain value v,
\* merge(f, {s, e, v}) adds [s, e) to the offsets covered by v and leaves the
\* coverage of every other value unchanged at every offset (so two values can
\* cover one offset); the ranges of equal value stay disjoint and coalesced;
\* the other formatters are unchanged.
C13_OverlapAddsCoverage ==
  \A f \in OverlapInline, s \in 0..len, e \in 0..len, v \in PlainValues :
    s < e =>
      LET after == merge(map, len, f, Range(s, e, v)) IN
        /\ \A p \in 0..(len - 1) :
             Cover(after, f, p) =
               Cover(map, f, p) \cup (IF s <= p /\ p < e THEN {v} ELSE {})
        /\ f \in DOMAIN after
        /\ Coalesced(after[f])
        /\ InSlot(after[f], len)
        /\ \A g \in (DOMAIN map) \ {f} : g \in DOMAIN after /\ after[g] = map[g]

\* A plain value was merged on an overlap formatter: its range was joined
\* with a range of the same value that reaches beyond [s, e), and an offset of
\* [s, e) carries a second value.
C13_Witness ==
  /\ last.op = "merge"
  /\ last.formatter \in OverlapInline
  /\ last.value \in PlainValues
  /\ \E i \in 1..Len(map[last.formatter]) :
       /\ map[last.formatter][i].value = last.value
       /\ map[last.formatter][i].startIndex < last.a
       /\ map[last.formatter][i].endIndex = last.b
  /\ \E p \in last.a..(last.b - 1) :
       \E w \in Cover(map, last.formatter, p) : w /= last.value

\* C14: for an overlap Inline formatter f, merge(f, {s, e, CleanRule(v)}) with
\* non-null v removes the coverage of the value equal to v inside [s, e) and
\* changes nothing else; when no stored range of f has a value equal to v (f
\* may have no ranges at all) the store is left unchanged.
C14_OverlapCleanUnsets ==
  \A f \in OverlapInline, s \in 0..len, e \in 0..len, c \in data \cap CleanRules :
    (s < e /\ ~isVoid(CleanValue(c))) =>
      LET after == merge(map, len, f, Range(s, e, c))
          v == CleanValue(c)
      IN /\ \A p \in 0..(len - 1) :
              Cover(after, f, p) =
                IF s <= p /\ p < e THEN Cover(map, f, p) \ {v} ELSE Cover(map, f, p)
         /\ (\A p \in 0..(len - 1) : v \notin Cover(map, f, p)) => after = map

BlockNonOverlap ==
  {f \in fmts : Formatters[f].type = "Block" /\ ~Formatters[f].overlap}

\* C15: for a non-overlap Block formatter f, merge(f, v) with a plain value v
\* leaves f with exactly the range {0, slot.length, v} whatever was stored
\* before, and merge(f, null) removes f's entry; the other formatters are
\* unchanged.
C15_BlockReplaces ==
  \A f \in BlockNonOverlap :
    /\ \A v \in PlainValues :
         LET after == merge(map, len, f, v) IN
           /\ f \in DOMAIN after
           /\ after[f] = <<Range(0, len, v)>>
           /\ \A g \in (DOMAIN map) \ {f} : g \in DOMAIN after /\ after[g] = map[g]
    /\ LET after == merge(map, len, f, Null) IN
         /\ f \notin DOMAIN after
         /\ \A g \in (DOMAIN map) \ {f} : g \in DOMAIN after /\ after[g] = map[g]

\* A plain value was merged on a non-overlap Block formatter of a slot that
\* also carries an Inline range: the Block formatter has its single
\* whole-slot range of that value.
C15_Witness ==
  /\ last.op = "merge"
  /\ last.formatter \in BlockNonOverlap
  /\ last.value \in PlainValues
  /\ len > 1
  /\ map[last.formatter] = <<Range(0, len, last.value)>>
  /\ \E g \in DOMAIN map : g \in InlineFormatters

\* C16: for a non-overlap Block formatter f and every v (null included),
\* merge(f, CleanRule(v)) removes f's entry if the stored value equals v and
\* otherwise leaves the store unchanged.
C16_BlockCleanMatches ==
  \A f \in BlockNonOverlap, c \in data \cap CleanRules :
    LET after == merge(map, len, f, c)
        v == CleanValue(c)
    IN IF f \in DOMAIN map /\ map[f] /= <<>> /\ map[f][1].value = v
       THEN after = MapDelete(map, f)
       ELSE after = map

BlockOverlap ==
  {f \in fmts : Formatters[f].type = "Block" /\ Formatters[f].overlap}

\* C17: the range list of an overlap Block formatter holds one layer per
\* distinct value: no two of its layers carry equal values, whatever plain
\* values were merged and however often.
C17_BlockLayersDistinct ==
  \A f \in (DOMAIN map) \cap BlockOverlap :
    \A i \in 1..Len(map[f]), j \in 1..Len(map[f]) :
      i /= j => ~equal(map[f][i].value, map[f][j].value)

\* C18: a Block formatter always applies to the whole slot: after any merge,
\* stretch, split and shrink calls, with stretch and split at any index from 0
\* to slot.length, every stored range of a Block formatter has startIndex = 0
\* and endIndex = slot.length.
C18_BlockWholeSlot ==
  \A f \in (DOMAIN map) \cap BlockFormatters :
    \A i \in 1..Len(map[f]) :
      map[f][i].startIndex = 0 /\ map[f][i].endIndex = len

RECURSIVE FormatsSpanNode(_, _)
\* Every entry of the formats of every node has the span of its node and
\* comes from a range of m of the same formatter and value that covers the span.
FormatsSpanNode(tree, m) ==
  /\ \A k \in 1..Len(tree.formats) :
       LET item == tree.formats[k] IN
         /\ item.startIndex = tree.startIndex
         /\ item.endIndex = tree.endIndex
         /\ item.formatter \in DOMAIN m
         /\ \E i \in 1..Len(m[item.formatter]) :
              /\ m[item.formatter][i].value = item.value
              /\ m[item.formatter][i].startIndex <= tree.startIndex
              /\ tree.endIndex <= m[item.formatter][i].endIndex
  /\ \A c \in 1..Len(tree.children) : FormatsSpanNode(tree.children[c], m)

RECURSIVE ExactAttached(_, _)
\* Every range of a non-columned formatter of m whose span is exactly the
\* span of a node is an entry of the formats of that node.
ExactAttached(tree, m) ==
  /\ \A f \in DOMAIN m : \A i \in 1..Len(m[f]) :
       ( /\ ~Formatters[f].columned
         /\ m[f][i].startIndex = tree.startIndex
         /\ m[f][i].endIndex = tree.endIndex )
       => \E k \in 1..Len(tree.formats) :
            tree.formats[k] = FormatItem(f, m[f][i])
  /\ \A c \in 1..Len(tree.children) : ExactAttached(tree.children[c], m)

\* C19: in the tree returned by toTree every entry of a node's formats has
\* the span of the node and comes from a stored range that covers the whole
\* span of the node; a non-columned range that exactly spans a node is
\* attached to that node, also when the node has children.
C19_FormatsSpanNode ==
  last.op = "toTree" =>
    /\ FormatsSpanNode(ret.tree, map)
    /\ ExactAttached(ret.tree, map)

\* A tree of the shape root {formats, children: [{}, {formats}, {}]}: a range
\* over the whole window attached to the root, a shorter range inside it
\* attached to the middle child.
C19_Witness ==
  /\ last.op = "toTree"
  /\ ret.tree.formats /= <<>>
  /\ Len(ret.tree.children) = 3
  /\ ret.tree.children[1].formats = <<>>
  /\ ret.tree.children[2].formats /= <<>>
  /\ ret.tree.children[3].formats = <<>>

\* C20: extract(a, b) returns, for every formatter, exactly the non-empty
\* intersections of its stored ranges with [a, b), in order and with the same
\* values: every returned range has a <= startIndex < endIndex <= b, a range
\* that only touches the window contributes nothing, and a formatter with no
\* surviving range is absent.
C20_ExtractIntersects ==
  \A a \in 0..len, b \in 0..len :
    a <= b =>
      LET result == extract(map, a, b) IN
        /\ DOMAIN result \subseteq DOMAIN map
        /\ \A f \in DOMAIN map :
             LET cut == [i \in 1..Len(map[f]) |->
                           Range(IF map[f][i].startIndex > a
                                 THEN map[f][i].startIndex ELSE a,
                                 IF map[f][i].endIndex < b
                                 THEN map[f][i].endIndex ELSE b,
                                 map[f][i].value)]
                 keep == {i \in 1..Len(map[f]) : cut[i].startIndex < cut[i].endIndex}
             IN IF keep = {}
                THEN f \notin DOMAIN result
                ELSE f \in DOMAIN result /\ result[f] = SelectSet(cut, 1, keep)
        /\ \A f \in DOMAIN result : \A i \in 1..Len(result[f]) :
             /\ a <= result[f][i].startIndex
             /\ result[f][i].startIndex < result[f][i].endIndex
             /\ result[f][i].endIndex <= b

\* extract(a, b) returned the inside of a range that is longer than the window
\* on both sides, and nothing for a formatter whose range ends at a.
C20_Witness ==
  /\ last.op = "extract"
  /\ \E f \in DOMAIN ret.map : \E i \in 1..Len(map[f]) :
       /\ map[f][i].startIndex < last.a
       /\ last.b < map[f][i].endIndex
       /\ ret.map[f] = <<Range(last.a, last.b, map[f][i].value)>>
  /\ \E g \in (DOMAIN map) \ (DOMAIN ret.map) : \E j \in 1..Len(map[g]) :
       map[g][j].endIndex = last.a

\* C21: createFormatByRange(slot', a, b) returns the ranges of extract(a, b)
\* with a subtracted from both indices: the same formatters, range for range
\* the same value, and every range has 0 <= startIndex < endIndex <= b - a.
C21_CreateRebases ==
  \A a \in 0..len, b \in 0..len :
    a <= b =>
      LET created == createFormatByRange(map, a, b)
          cut     == extract(map, a, b)
      IN /\ DOMAIN created = DOMAIN cut
         /\ \A f \in DOMAIN cut :
              /\ Len(created[f]) = Len(cut[f])
              /\ \A i \in 1..Len(cut[f]) :
                   /\ created[f][i].startIndex = cut[f][i].startIndex - a
                   /\ created[f][i].endIndex = cut[f][i].endIndex - a
                   /\ created[f][i].value = cut[f][i].value
                   /\ 0 <= created[f][i].startIndex
                   /\ created[f][i].startIndex < created[f][i].endIndex
                   /\ created[f][i].endIndex <= b - a

\* createFormatByRange(slot', a, b) with a > 0 returned a range that starts
\* at 0 for a stored range that begins before a and ends inside the window.
C21_Witness ==
  /\ last.op = "createFormatByRange"
  /\ last.a > 0
  /\ \E f \in DOMAIN ret.map : \E i \in 1..Len(map[f]) :
       /\ map[f][i].startIndex < last.a
       /\ last.a < map[f][i].endIndex
       /\ map[f][i].endIndex <= last.b
       /\ ret.map[f][1] = Range(0, map[f][i].endIndex - last.a, map[f][i].value)

\* C22: extractFormatsByIndex(index) returns exactly one (formatter, value)
\* pair per stored range with startIndex = 0 when index = 0, and with
\* startIndex < index <= endIndex when index > 0; no other pair is returned.
C22_FormatsByIndex ==
  \A index \in 0..len :
    LET result == extractFormatsByIndex(map, index)
        picked(f) == {i \in 1..Len(map[f]) :
                        IF index = 0
                        THEN map[f][i].startIndex = 0
                        ELSE /\ map[f][i].startIndex < index
                             /\ index <= map[f][i].endIndex}
        count(f, v) == Cardinality({k \in 1..Len(result) : result[k] = <<f, v>>})
    IN /\ \A k \in 1..Len(result) :
            /\ result[k][1] \in DOMAIN map
            /\ \E i \in picked(result[k][1]) : map[result[k][1]][i].value = result[k][2]
       /\ \A f \in DOMAIN map : \A i \in 1..Len(map[f]) :
            count(f, map[f][i].value) =
              Cardinality({j \in picked(f) : map[f][j].value = map[f][i].value})

\* extractFormatsByIndex(index) with index > 0 returned the pair of a range
\* that ends at index and no pair for a range of the store that starts there.
C22_Witness ==
  /\ last.op = "extractFormatsByIndex"
  /\ last.a > 0
  /\ \E f \in DOMAIN map : \E i \in 1..Len(map[f]) :
       /\ map[f][i].endIndex = last.a
       /\ \E k \in 1..Len(ret.formats) : ret.formats[k] = <<f, map[f][i].value>>
  /\ \E g \in DOMAIN map : \E j \in 1..Len(map[g]) :
       /\ map[g][j].startIndex = last.a
       /\ \A k \in 1..Len(ret.formats) : ret.formats[k] /= <<g, map[g][j].value>>

\* C23: in every reachable state toGrid() returns a strictly ascending list
\* (so without duplicates) whose members are 0, slot.length and the
\* startIndex and endIndex of every stored range, and nothing else.
C23_GridComplete ==
  LET grid == toGrid(map, len)
      members == {grid[k] : k \in 1..Len(grid)}
      bounds == UNION {UNION {{map[f][i].startIndex, map[f][i].endIndex} :
                                i \in 1..Len(map[f])} : f \in DOMAIN map}
  IN /\ \A k \in 1..(Len(grid) - 1) : grid[k] < grid[k + 1]
     /\ members = {0, len} \cup bounds

\* toGrid() returned every offset of a slot of three positions, for a store
\* in which one range ends where another starts.
C23_Witness ==
  /\ last.op = "toGrid"
  /\ ret.grid = <<0, 1, 2, 3>>
  /\ \E f \in DOMAIN map, g \in DOMAIN map :
       \E i \in 1..Len(map[f]), j \in 1..Len(map[g]) :
         map[f][i].endIndex = map[g][j].startIndex

\* C25: merge(f, data) changes at most the entry of formatter f: every other
\* formatter has the same range list before and after the call, and no other
\* formatter gains or loses its entry.
C25_MergeFrame ==
  /\ \A f \in fmts \cap InlineFormatters, s \in 0..len, e \in 0..len, v \in data :
       s < e =>
         LET after == merge(map, len, f, Range(s, e, v)) IN
           /\ (DOMAIN after) \ {f} = (DOMAIN map) \ {f}
           /\ \A g \in (DOMAIN map) \ {f} : after[g] = map[g]
  /\ \A f \in fmts \cap BlockFormatters, v \in data :
       LET after == merge(map, len, f, v) IN
         /\ (DOMAIN after) \ {f} = (DOMAIN map) \ {f}
         /\ \A g \in (DOMAIN map) \ {f} : after[g] = map[g]

\* A plain value was merged on one formatter over offsets that another
\* formatter covers with a range of other indices, which is still there.
C25_Witness ==
  /\ last.op = "merge"
  /\ last.value \in PlainValues
  /\ last.formatter \in DOMAIN map
  /\ \E i \in 1..Len(map[last.formatter]) :
       map[last.formatter][i] = Range(last.a, last.b, last.value)
  /\ \E g \in (DOMAIN map) \ {last.formatter} : \E j \in 1..Len(map[g]) :
       /\ map[g][j].startIndex < last.b
       /\ last.a < map[g][j].endIndex
       /\ <<map[g][j].startIndex, map[g][j].endIndex>> /= <<last.a, last.b>>

\* C27: discard(formatter, startIndex, endIndex) discards the formatter's
\* formatting inside the range: after the call no stored range of that
\* formatter covers an offset of [startIndex, endIndex).
C27_DiscardRemoves ==
  last.op = "discard" =>
    \A p \in last.a..(last.b - 1) : Cover(map, last.formatter, p) = {}

RECURSIVE LeafAt(_, _)
\* The leaf of a tree whose span holds offset p.
LeafAt(tree, p) ==
  IF tree.children = <<>> THEN tree
  ELSE LeafAt(tree.children[CHOOSE c \in 1..Len(tree.children) :
                               /\ tree.children[c].startIndex <= p
                               /\ p < tree.children[c].endIndex], p)

RECURSIVE PathFormats(_, _)
\* The entries of the formats of the nodes from the root to the leaf that
\* holds offset p.
PathFormats(tree, p) ==
  IF tree.children = <<>> THEN tree.formats
  ELSE tree.formats \o
       PathFormats(tree.children[CHOOSE c \in 1..Len(tree.children) :
                                   /\ tree.children[c].startIndex <= p
                                   /\ p < tree.children[c].endIndex], p)

RECURSIVE ColumnedOnLeaves(_)
\* No node with children has an entry of a columned formatter in its formats.
ColumnedOnLeaves(tree) ==
  /\ tree.children /= <<>> =>
       \A k \in 1..Len(tree.formats) : ~Formatters[tree.formats[k].formatter].columned
  /\ \A c \in 1..Len(tree.children) : ColumnedOnLeaves(tree.children[c])

\* How many entries of a list of FormatItems are of formatter f and value v.
CountItems(items, f, v) ==
  Cardinality({k \in 1..Len(items) : items[k].formatter = f /\ items[k].value = v})

\* How many ranges of formatter f with value v cover offset p.
CountCover(m, f, v, p) ==
  Cardinality({i \in 1..Len(m[f]) :
                 /\ m[f][i].value = v
                 /\ m[f][i].startIndex <= p
                 /\ p < m[f][i].endIndex})

\* C28: in the tree returned by toTree a range of a columned formatter is
\* never in the formats of a node that has children; it is in the formats of
\* the pieces the node is split into, so that the leaf over each offset
\* carries one entry for each columned range that covers the offset, and no
\* other entry of a columned formatter.
C28_ColumnedOnPieces ==
  last.op = "toTree" =>
    /\ ColumnedOnLeaves(ret.tree)
    /\ \A p \in last.a..(last.b - 1) :
         LET leaf == LeafAt(ret.tree, p) IN
           /\ \A f \in DOMAIN map : \A i \in 1..Len(map[f]) :
                Formatters[f].columned =>
                  CountItems(leaf.formats, f, map[f][i].value)
                    = CountCover(map, f, map[f][i].value, p)
           /\ \A k \in 1..Len(leaf.formats) :
                Formatters[leaf.formats[k].formatter].columned =>
                  /\ leaf.formats[k].formatter \in DOMAIN map
                  /\ CountCover(map, leaf.formats[k].formatter,
                                leaf.formats[k].value, p) > 0

\* A columned range spans the whole window of a tree whose root was split in
\* three pieces by a shorter range: each piece carries the columned entry and
\* the root does not.
C28_Witness ==
  /\ last.op = "toTree"
  /\ Len(ret.tree.children) = 3
  /\ \E f \in DOMAIN map : \E i \in 1..Len(map[f]) :
       /\ Formatters[f].columned
       /\ map[f][i].startIndex <= last.a
       /\ last.b <= map[f][i].endIndex
       /\ CountItems(ret.tree.formats, f, map[f][i].value) = 0
       /\ \A c \in 1..3 :
            CountItems(ret.tree.children[c].formats, f, map[f][i].value) = 1

RECURSIVE NoWrapper(_)
\* Every child that has children has formats, and so on below.
NoWrapper(tree) ==
  \A c \in 1..Len(tree.children) :
    /\ tree.children[c].children /= <<>> => tree.children[c].formats /= <<>>
    /\ NoWrapper(tree.children[c])

\* C29: the tree returned by toTree has no redundant wrapper: every node
\* other than the root that has children also has a non-empty formats list.
C29_NoWrapper ==
  last.op = "toTree" => NoWrapper(ret.tree)

\* The tree of a window in which two ranges start at the start of the window
\* and end at different offsets before its end: the sub-window of the longer
\* one has children and no formats of its own, and the root holds its pieces.
C29_Witness ==
  /\ last.op = "toTree"
  /\ ret.tree.formats = <<>>
  /\ Len(ret.tree.children) = 3
  /\ \A c \in 1..3 : ret.tree.children[c].children = <<>>
  /\ \E f \in DOMAIN map, g \in DOMAIN map :
       \E i \in 1..Len(map[f]), j \in 1..Len(map[g]) :
         /\ map[f][i].startIndex = last.a
         /\ map[g][j].startIndex = last.a
         /\ map[f][i].endIndex < map[g][j].endIndex
         /\ map[g][j].endIndex < last.b

\* C30: toTree is lossless: for every offset p of the window, the entries of
\* the formats of the nodes on the path from the root to the leaf that holds
\* p are the (formatter, value) pairs of the stored ranges that cover p, one
\* entry for each such range: nothing is lost and nothing is duplicated.
C30_TreeLossless ==
  last.op = "toTree" =>
    \A p \in last.a..(last.b - 1) :
      LET path == PathFormats(ret.tree, p) IN
        /\ \A f \in DOMAIN map : \A i \in 1..Len(map[f]) :
             CountItems(path, f, map[f][i].value)
               = CountCover(map, f, map[f][i].value, p)
        /\ \A k \in 1..Len(path) :
             /\ path[k].formatter \in DOMAIN map
             /\ CountCover(map, path[k].formatter, path[k].value, p) > 0

\* The tree of a window over two ranges that cross: the path to an offset
\* they share carries two entries, the paths to the first and to the last
\* offset carry one.
C30_Witness ==
  /\ last.op = "toTree"
  /\ last.a = 0 /\ last.b = 3
  /\ Len(PathFormats(ret.tree, 0)) = 1
  /\ Len(PathFormats(ret.tree, 1)) = 2
  /\ Len(PathFormats(ret.tree, 2)) = 1
  /\ PathFormats(ret.tree, 0) /= PathFormats(ret.tree, 2)

\* C26: every store operation returns on well-formed input.  The recursion
\* of toTree(s, e) ends for every store and window: every nested call has a
\* shorter, non-empty window, so the recursion is at most e - s calls deep;
\* and Format.equal, which reads the keys of an operand of type object and
\* would raise on null, is never given one, as no stored range carries a
\* void value.
C26_OperationsReturn ==
  /\ \A s \in 0..len, e \in 0..len :
       s < e => toTreeDepth(map, s, e, e - s) \in 1..(e - s)
  /\ \A s \in 0..len, e \in 0..len :
       s < e => \A c \in 1..Len(treeDescent(map, s, e)) :
                  LET call == treeDescent(map, s, e)[c] IN
                    /\ call.startIndex < call.endIndex
                    /\ s <= call.startIndex
                    /\ call.endIndex <= e
                    /\ call.endIndex - call.startIndex < e - s
  /\ \A f \in DOMAIN map : \A i \in 1..Len(map[f]) : ~isVoid(map[f][i].value)

\* toTree returned for a window on which its recursion went three calls deep.
C26_Witness ==
  /\ last.op = "toTree"
  /\ ret.tree.children /= <<>>
  /\ toTreeDepth(map, last.a, last.b, last.b - last.a) = 3

\* Every object of heap h is in heap k what it is in h: nothing that existed
\* was written.
Untouched(h, k) ==
  /\ Len(h.F) <= Len(k.F) /\ \A i \in 1..Len(h.F) : k.F[i] = h.F[i]
  /\ Len(h.A) <= Len(k.A) /\ \A i \in 1..Len(h.A) : k.A[i] = h.A[i]
  /\ Len(h.R) <= Len(k.R) /\ \A i \in 1..Len(h.R) : k.R[i] = h.R[i]

\* The store by objects is the store by value.
HeapIsStore == Deref(ret.heap, 1) = map

\* C24: the read operations leave the store they are called on unchanged:
\* extract, createFormatByRange and toTree, like extractFormatsByIndex,
\* toGrid, toJSON and toArray, write to no Map, array or range that existed
\* before the call (what toTree consumes are copies); and a store returned by
\* extract is not changed by the mutations of the original that follow.
C24_ReadsKeepStore ==
  /\ HeapIsStore
  /\ \A s \in 0..len, e \in 0..len :
       s < e =>
         /\ Untouched(ret.heap, hExtract(ret.heap, 1, s, e).h)
         /\ Untouched(ret.heap, hCreateFormatByRange(ret.heap, 1, s, e).h)
         /\ Untouched(ret.heap, hToTree(ret.heap, 1, s, e))
  /\ Untouched(ret.heap, hRead(ret.heap, 1))
  /\ ret.held /= 0 => Deref(ret.heap, ret.held) = ret.snap

\* A store was returned by extract, and the original was then stretched
\* inside the range the returned store had been cut from: the original has
\* the longer range, the returned store the range it was returned with.
C24_Witness ==
  /\ ret.held /= 0
  /\ last.op = "stretch"
  /\ \E f \in DOMAIN ret.snap : \E i \in 1..Len(map[f]) :
       /\ map[f][i].startIndex < last.a
       /\ last.a + last.b < map[f][i].endIndex
       /\ ret.snap[f][1].endIndex < map[f][i].endIndex

\* Two arrays agree offset by offset, null and absent alike.
SameValues(v, w) ==
  /\ Len(v) = Len(w)
  /\ \A i \in 1..Len(v) : (isVoid(v[i]) /\ isVoid(w[i])) \/ v[i] = w[i]

\* C31: tileRanges and toRanges are inverse on normalized data.  For a dense
\* array of values no longer than the slot whose last element is not void,
\* tileRanges(toRanges(values)) has the same value at every offset (null and
\* absent alike); and for a range list that is sorted, disjoint, coalesced,
\* inside the slot and carries values, toRanges(tileRanges(ranges)) is that
\* list.
C31_TilesInverse ==
  (ret /= NoReturn /\ ret.chained) =>
    /\ (/\ ret.op = "tileRanges"
        /\ Len(ret.origin) <= len
        /\ (ret.origin /= <<>> => ~isVoid(ret.origin[Len(ret.origin)])))
         => SameValues(ret.output, ret.origin)
    /\ (/\ ret.op = "toRanges"
        /\ Flattened(ret.origin)
        /\ InSlot(ret.origin, len)
        /\ \A i \in 1..Len(ret.origin) : ~isVoid(ret.origin[i].value))
         => ret.output = ret.origin

\* An array with a hole and a run went through toRanges and tileRanges, and a
\* list of two touching ranges of different values through tileRanges and
\* toRanges.
C31_Witness ==
  /\ ret /= NoReturn /\ ret.chained
  /\ \/ /\ ret.op = "tileRanges"
        /\ ret.origin = <<Null, Prim(1), Prim(1)>>
        /\ ret.input = <<Range(1, 3, Prim(1))>>
        /\ ret.output = <<Undefined, Prim(1), Prim(1)>>
     \/ /\ ret.op = "toRanges"
        /\ ret.origin = <<Range(0, 2, Prim(1)), Range(2, 3, Obj({<<"a", 1>>}))>>
        /\ ret.output = ret.origin

\* C32: no stored range carries an unset instruction as its value: after any
\* sequence of merges (plain values, null, CleanFormatRule of null or of a
\* value, into a formatter with or without ranges) every stored value is a
\* plain value, never void and never a CleanFormatRule.
C32_NoStoredInstruction ==
  \A f \in DOMAIN map : \A i \in 1..Len(map[f]) :
    ~isVoid(map[f][i].value) /\ ~isClean(map[f][i].value)

\* The [formatter, value] pairs of the ranges covering offset p, the keys in
\* map order and the ranges in list order.
CoveringFormats(m, p) ==
  LET keys == MapKeys(m)
      pairs(g) == LET covers(range) == range.startIndex <= p /\ p < range.endIndex
                      kept == SelectSeq(m[g], covers)
                  IN [i \in 1..Len(kept) |-> <<g, kept[i].value>>]
  IN Flat([k \in 1..Len(keys) |-> pairs(keys[k])])

\* C33: inserted positions inherit the formats extractFormatsByIndex reports.
\* For every index >= 1 and count >= 1, after stretch(index, count) the
\* [formatter, value] pairs of the ranges covering each inserted offset
\* index .. index + count - 1 are exactly the pairs extractFormatsByIndex(index)
\* returned before the call.
C33_StretchInherits ==
  \A index \in 1..len, count \in 1..MaxCount :
    LET after == stretch(map, index, count)
    IN \A p \in index..(index + count - 1) :
         CoveringFormats(after, p) = extractFormatsByIndex(map, index)

\* stretch(index, count) with index >= 1 has grown a range that ended at or
\* after index over the inserted positions and has moved a range that began
\* at index behind them.
C33_Witness ==
  /\ last.op = "stretch" /\ last.a >= 1
  /\ \E f \in DOMAIN map : \E i \in 1..Len(map[f]) :
       /\ map[f][i].startIndex < last.a
       /\ map[f][i].endIndex = last.a + last.b
  /\ \E g \in DOMAIN map : \E j \in 1..Len(map[g]) :
       map[g][j].startIndex = last.a + last.b
  /\ \A p \in last.a..(last.a + last.b - 1) : Len(CoveringFormats(map, p)) = 1

\* The range invariants of a store: every range inside the slot; the ranges
\* of a formatter sorted, disjoint and coalesced (for an overlap formatter:
\* the ranges of one value disjoint and not touching).
RangeInvariants(m, slotLength) ==
  \A f \in DOMAIN m :
    /\ m[f] /= <<>>
    /\ InSlot(m[f], slotLength)
    /\ IF Formatters[f].overlap THEN Coalesced(m[f]) ELSE Flattened(m[f])

\* The set of ranges a store has for a formatter.
RangesOf(m, f) ==
  IF f \in DOMAIN m THEN {m[f][i] : i \in 1..Len(m[f])} ELSE {}

\* C34: insertion followed by deletion of the same span restores the store.
\* For a store that satisfies the range invariants, stretch(i, c) followed by
\* shrink(i, c), and split(i, c) followed by shrink(i, c), slot.length
\* adjusted accordingly, leave every formatter with the same set of ranges
\* and values as before.
C34_InsertDeleteRestores ==
  (ret.kind = "restored" /\ RangeInvariants(ret.before, len)) =>
    \A f \in FormatterNames : RangesOf(map, f) = RangesOf(ret.before, f)

\* C35: CoreEditor hands out content only while ready and not destroyed.
\* getContents() and getJSON() throw once destroy() has been called and throw
\* while init() has not completed; init() on a destroyed editor returns a
\* rejected promise, makes no layout and leaves isReady (and every other
\* field) as it was.
C35_ContentWhileReady ==
  /\ (ret.destroyed \/ ~ret.isReady) =>
       /\ getContents(ret).outcome = "threw editorError"
       /\ getJSON(ret).outcome = "threw editorError"
  /\ (last.op \in {"getContents", "getJSON"} /\ ret.outcome = "returned") =>
       (ret.isReady /\ ~ret.destroyed)
  /\ ret.destroyed =>
       \A options \in EditorOptions :
         init(ret, options) = [ret EXCEPT !.outcome = "rejected"]

\* init was called on an editor destroyed while its first bootstrap was
\* pending: the promise is rejected and there is still one layout.
C35_Witness ==
  /\ last.op = "init" /\ ret.outcome = "rejected"
  /\ ret.destroyed /\ ~ret.isReady
  /\ ret.layouts = 1 /\ ret.pending = {1}

\* C36: destroy() can be called in any state (before init, while init is
\* pending, when ready, after a destroy) without raising, and takes effect at
\* most once: no operation sets destroyed back to false, and every plugin's
\* onDestroy, every subscription's unsubscribe and every injector's destroy
\* has run at most once.
C36_DestroyAnyState ==
  /\ last.op = "destroy" => ret.outcome = "returned"
  /\ ret.destroyed =>
       /\ destroy(ret).destroyed
       /\ getContents(ret).destroyed /\ getJSON(ret).destroyed
       /\ \A options \in EditorOptions : init(ret, options).destroyed
       /\ \A n \in ret.pending : bootstrapThen(ret, n).destroyed
       /\ \A n \in ret.mounted : viewChecked(ret, n).destroyed
  /\ \A p \in Plugins : ret.onDestroys[p] <= 1
  /\ \A i \in 1..Len(ret.unsubscribes) : ret.unsubscribes[i] <= 1
  /\ \A n \in 1..MaxInits : ret.destroys[n] <= 1

\* C37: when destroy() was called while the bootstrap promise of init() was
\* pending, the promise resolving later leaves the editor not ready, mounts
\* no component and leaves no subscription of init open, so that onChange
\* does not emit once destroy() has returned.
C37_LateResolveInert ==
  ret.destroyed =>
    /\ \A n \in ret.pending :
         LET after == bootstrapThen(ret, n)
         IN /\ after.isReady = ret.isReady
            /\ after.mounted = ret.mounted
            /\ \A i \in 1..Len(after.subs) : after.subs[i].closed
    /\ \A i \in 1..Len(ret.subs) : ret.subs[i].closed
    /\ \A n \in ret.mounted : viewChecked(ret, n).changes = ret.changes

\* C38: setContents(html) called before the editor is ready is queued, run
\* exactly once when the layout becomes ready, and not lost: when onReady
\* fires the root slot holds the content of the latest queued call, not the
\* initial options.contents; a call made once ready runs at once.
C38_QueuedContentKept ==
  /\ ~ret.readyState => \A i \in 1..Len(ret.runs) : ret.runs[i] = 0
  /\ ret.readyState =>
       /\ \A i \in 1..Len(ret.runs) : ret.runs[i] = 1
       /\ ret.tasks /= <<>> => ret.slotAtReady = ret.tasks[Len(ret.tasks)]
  /\ (last.op = "setContents" /\ ret.readyState) => ret.slot = last.value

\* C39: editors made by createEditor share no option state.  An option
\* passed to one call is not among the options of an editor whose call did
\* not pass it, the options of an editor are what they were when it was
\* created, and defaultOptions has the value of its literal after every call.
C39_OptionsIsolated ==
  /\ ret.objects[1] = defaultOptions
  /\ \A e \in 1..Len(ret.editors) :
       LET editor  == ret.editors[e]
           options == ret.objects[editor.options]
           passed  == ret.objects[editor.passed]
       IN /\ options = editor.created
          /\ \A k \in DOMAIN options :
               \/ k \in DOMAIN passed /\ options[k] = passed[k]
               \/ k \in DOMAIN defaultOptions /\ options[k] = defaultOptions[k]

====
